---- MODULE Spec2Model ----
(***************************************************************************)
(* A state-machine model of chrome/browser/prerender/prerender_contents.cc *)
(* (PrerenderContents), together with the two collaborators it talks to:   *)
(* the PrerenderTracker (cross-thread map of final statuses) and the       *)
(* PrerenderManager (history log, pending-delete list, configuration).     *)
(*                                                                         *)
(* Handlers are translated as operators from a world record to a world     *)
(* record, so that a handler that calls another handler (CheckURL ->       *)
(* Destroy -> SetFinalStatus) is the composition of the operators.  A      *)
(* failed DCHECK / CHECK / NOTREACHED is fatal: it is recorded in `fatal`  *)
(* and the process takes no further step.                                  *)
(***************************************************************************)
EXTENDS Integers, Sequences, FiniteSets, TLC

VARIABLES
  recs,            \* the PrerenderContents objects: "orig" and its "clone"
  tracker,         \* PrerenderTracker: (child_id, route_id) -> final status
  history,         \* PrerenderManager::AddToHistory log
  pending_delete,  \* PrerenderManager::MoveEntryToPendingDelete list
  cancel_log,      \* cancellation requests that reached the tracker
  fatal,           \* the failed assertion, NoFatal while the process runs
  pc,              \* position of the home (UI) thread inside Destroy
  config,          \* PrerenderManager configuration (read-only snapshot)
  add_page_vector, \* add_page_vector_ of the record that hosts the session
  tab_history,     \* what the target tab's HistoryTabHelper was told, in order
  render_frame_hosts,  \* render_frame_hosts_ of the record that hosts the session
  frame_msgs,          \* PrerenderMsg_SetIsPrerendering messages sent, in order
  pending_prerenders,  \* pending_prerenders_ of the record that hosts the session
  started_prerenders,  \* requests the manager got through StartPendingPrerenders
  seen                 \* what the manager and the observers saw of a record
                       \* when Destroy called them, in order

vars == <<recs, tracker, history, pending_delete, cancel_log, fatal, pc,
          config, add_page_vector, tab_history, render_frame_hosts, frame_msgs,
          pending_prerenders, started_prerenders,
         seen>>

-----------------------------------------------------------------------------
(* Bounds of the model *)

MaxAliases == 2
MaxForeign == 1
MaxRedirects == 2
MaxStopLoading == 1
MaxEntries == 3
MaxHosts == 2
MaxFrameMsgs == 3
MaxPending == 2
MaxTabEntries == 4
MaxPrivateBytes == 3
MaxFavicons == 2

-----------------------------------------------------------------------------
(* Values *)

NoId == -1
NoFatal == "none"

RecordIds == {"orig", "clone"}

U_HTTP == [scheme |-> "http", rest |-> "a.com"]
U_HTTPS == [scheme |-> "https", rest |-> "a.com"]
U_FTP == [scheme |-> "ftp", rest |-> "x.com/a"]
URLs == {U_HTTP, U_HTTPS, U_FTP}

kHttpScheme == "http"
kHttpsScheme == "https"
SchemeIs(url, scheme) == url.scheme = scheme

ChildIds == {1}
RouteIds == {5}
NamespaceIds == {10, 11}
StartNamespaceIds == {10}
CreatorIds == {3}
\* A SessionStorageNamespace* argument: the null pointer, or a namespace.
NamespaceArgs ==
  {[null |-> TRUE, id |-> -1]} \cup {[null |-> FALSE, id |-> n] : n \in NamespaceIds}

FINAL_STATUS_USED == "USED"
FINAL_STATUS_MAX == "MAX"
CancelReasons ==
  {"TIMED_OUT", "CANCELLED", "UNSUPPORTED_SCHEME", "HTTPS", "RECENTLY_VISITED",
   "NEW_NAVIGATION_ENTRY", "OPEN_URL", "DOWNLOAD", "JS_OUT_OF_MEMORY",
   "JAVASCRIPT_ALERT", "REGISTER_PROTOCOL_HANDLER", "RENDERER_CRASHED",
   "WINDOW_PRINT", "PROFILE_DESTROYED", "APP_TERMINATING",
   "MEMORY_LIMIT_EXCEEDED", "INVALID_HTTP_METHOD", "AUTH_NEEDED", "SSL_ERROR",
   "CACHE_OR_HISTORY_CLEARED"}
FinalStatuses == {FINAL_STATUS_USED} \cup CancelReasons
ManagerReasons == {"TIMED_OUT", "CANCELLED"}
\* The reason each resource-dispatch (IO thread) caller cancels with: the
\* racing requests carry pairwise different reasons.
ForeignReasons ==
  <<"INVALID_HTTP_METHOD", "AUTH_NEEDED", "SSL_ERROR", "CACHE_OR_HISTORY_CLEARED">>
HomeThread == 0
ForeignThreads == 1..MaxForeign
NoRequest == [pair |-> <<-1, -1>>, reason |-> "none", got |-> "none"]

MATCH_COMPLETE_DEFAULT == "DEFAULT"
MATCH_COMPLETE_REPLACEMENT == "REPLACEMENT"
MATCH_COMPLETE_REPLACEMENT_PENDING == "REPLACEMENT_PENDING"

Observers == {"tracker", "handle"}

Idle ==
  [at |-> "idle", rec |-> "orig", final_status |-> FINAL_STATUS_MAX,
   recent |-> {}]

NoInput == [recent |-> {}, convert |-> FALSE]
\* What the manager answers during one handler: the URL it reports as recently
\* navigated to (at most one), and whether it converts the record it is asked
\* to delete into the target of a match-complete replacement.
Inputs(urls) == [recent : {{}} \cup {{u} : u \in urls}, convert : BOOLEAN]

\* The same without a conversion.  Only a started record is converted, a
\* started record has a pair, and with a pair the manager is asked when
\* Destroy resumes: the handlers that enter Destroy need no such answer.
Recent(urls) == {in \in Inputs(urls) : ~in.convert}

-----------------------------------------------------------------------------
(* The PrerenderContents object *)

PrerenderContents(url) ==
  [exists |-> TRUE,
   inited |-> FALSE,
   prerender_url |-> url,
   alias_urls |-> <<>>,
   prerendering_has_started |-> FALSE,
   session_storage_namespace_id |-> -1,
   has_stopped_loading |-> FALSE,
   has_finished_loading |-> FALSE,
   final_status |-> FINAL_STATUS_MAX,
   match_complete_status |-> MATCH_COMPLETE_DEFAULT,
   prerendering_has_been_cancelled |-> FALSE,
   child_id |-> -1,
   route_id |-> -1,
   creator_child_id |-> -1,
   size_empty |-> TRUE,
   load_start_time_null |-> TRUE,
   prerender_contents |-> FALSE,
   navigation_issued |-> FALSE,
   observer_list |-> <<>>,
   delivered |-> <<>>,
   process_metrics |-> FALSE,
   icon_url |-> "none"]

NoRecord == [PrerenderContents(U_HTTP) EXCEPT !.exists = FALSE]

World(in) ==
  [recs |-> recs, tracker |-> tracker, history |-> history,
   pending_delete |-> pending_delete, cancel_log |-> cancel_log,
   fatal |-> fatal, pc |-> pc, config |-> config, in |-> in,
   render_frame_hosts |-> render_frame_hosts, frame_msgs |-> frame_msgs,
   pending_prerenders |-> pending_prerenders,
   started_prerenders |-> started_prerenders, seen |-> seen]

\* The one element of a singleton: The({e(x) : x \in {v}}) is e with x bound
\* to the value of v, computed once.
The(S) == CHOOSE x \in S : TRUE

Fail(w, what) == IF w.fatal = NoFatal THEN [w EXCEPT !.fatal = what] ELSE w

Ok(w) == w.fatal = NoFatal

Pair(rec) == <<rec.child_id, rec.route_id>>

-----------------------------------------------------------------------------
(* PrerenderTracker: a synchronized map (child_id, route_id) -> final       *)
(* status.  Each operation below runs under the tracker's lock, so it is    *)
(* one atomic step of whichever thread calls it.                            *)

\* The tracker observes OnPrerenderStart and learns the pair, status unset.
Tracker_OnPrerenderStart(w, p) ==
  IF p \in DOMAIN w.tracker THEN w
  ELSE [w EXCEPT !.tracker = w.tracker @@ (p :> FINAL_STATUS_MAX)]

\* Set-if-absent; reports whether the pair is now cancelled.
Tracker_TryCancel(w, p, final_status) ==
  IF p \notin DOMAIN w.tracker THEN [w |-> w, ret |-> FALSE]
  ELSE LET now == IF w.tracker[p] = FINAL_STATUS_MAX THEN final_status
                  ELSE w.tracker[p]
       IN [w |-> [w EXCEPT !.tracker[p] = now],
           ret |-> now # FINAL_STATUS_USED /\ now # FINAL_STATUS_MAX]

Tracker_GetFinalStatus(w, p) ==
  IF p \in DOMAIN w.tracker
  THEN [found |-> TRUE, status |-> w.tracker[p]]
  ELSE [found |-> FALSE, status |-> FINAL_STATUS_MAX]

-----------------------------------------------------------------------------
(* PrerenderManager *)

IsControlGroup(w) == w.config.control_group

HasRecentlyBeenNavigatedTo(w, url) == url \in w.in.recent

\* What the collaborator `who`, called with record r, sees of it: its final
\* status and whether it is cancelled, at the time of the call.
See(w, who, call, r) ==
  [w EXCEPT !.seen = Append(@, [who |-> who, call |-> call, rec |-> r,
                                final_status |-> w.recs[r].final_status,
                                cancelled |->
                                  w.recs[r].prerendering_has_been_cancelled])]

AddToHistory(w, r) ==
  See([w EXCEPT !.history = Append(w.history, r)], "manager", "AddToHistory",
      r)

-----------------------------------------------------------------------------
(* Observers *)

Deliver(w, r, kind, o) ==
  LET w1 == [w EXCEPT !.recs[r].delivered = Append(@, <<kind, o>>)]
  IN IF kind = "start" /\ o = "tracker"
     THEN Tracker_OnPrerenderStart(w1, Pair(w1.recs[r]))
     ELSE IF kind \in {"stop", "replacement"} THEN See(w1, o, kind, r)
     ELSE w1

RECURSIVE ForEachObserver(_, _, _, _)
ForEachObserver(w, r, kind, i) ==
  IF i > Len(w.recs[r].observer_list) THEN w
  ELSE ForEachObserver(Deliver(w, r, kind, w.recs[r].observer_list[i]),
                       r, kind, i + 1)

AddObserver(w, r, observer) ==
  IF w.recs[r].final_status # FINAL_STATUS_MAX
  THEN Fail(w, "AddObserver: DCHECK_EQ(FINAL_STATUS_MAX, final_status_)")
  ELSE [w EXCEPT !.recs[r].observer_list = Append(@, observer)]

\* Faulty variant: the observers are not told of the start.
NotifyPrerenderStart_NotDelivered(w, r) ==
  IF w.recs[r].final_status # FINAL_STATUS_MAX
  THEN Fail(w, "NotifyPrerenderStart: DCHECK_EQ(FINAL_STATUS_MAX, final_status_)")
  ELSE w

NotifyPrerenderStart(w, r) ==
  IF w.recs[r].final_status # FINAL_STATUS_MAX
  THEN Fail(w, "NotifyPrerenderStart: DCHECK_EQ(FINAL_STATUS_MAX, final_status_)")
  ELSE ForEachObserver(w, r, "start", 1)

NotifyPrerenderStopLoading(w, r) == ForEachObserver(w, r, "stop_loading", 1)

\* Faulty variant: the observer list is not cleared after the notification.
NotifyPrerenderStop_KeepsObservers(w, r) ==
  IF w.recs[r].final_status = FINAL_STATUS_MAX
  THEN Fail(w, "NotifyPrerenderStop: DCHECK_NE(FINAL_STATUS_MAX, final_status_)")
  ELSE ForEachObserver(w, r, "stop", 1)

NotifyPrerenderStop(w, r) ==
  IF w.recs[r].final_status = FINAL_STATUS_MAX
  THEN Fail(w, "NotifyPrerenderStop: DCHECK_NE(FINAL_STATUS_MAX, final_status_)")
  ELSE [ForEachObserver(w, r, "stop", 1) EXCEPT !.recs[r].observer_list = <<>>]

NotifyPrerenderCreatedMatchCompleteReplacement(w, r) ==
  ForEachObserver(w, r, "replacement", 1)

-----------------------------------------------------------------------------
(* Final status *)

\* Faulty variant: the second DCHECK is missing, a later call overwrites.
SetFinalStatus_Overwrites(w, r, final_status) ==
  IF final_status \notin FinalStatuses
  THEN Fail(w, "SetFinalStatus: DCHECK(final_status >= USED && final_status < MAX)")
  ELSE [w EXCEPT !.recs[r].final_status = final_status]

\* Faulty variant: the checks run but the status is never stored.
SetFinalStatus_Dropped(w, r, final_status) ==
  IF final_status \notin FinalStatuses
  THEN Fail(w, "SetFinalStatus: DCHECK(final_status >= USED && final_status < MAX)")
  ELSE IF w.recs[r].final_status # FINAL_STATUS_MAX
  THEN Fail(w, "SetFinalStatus: DCHECK(final_status_ == FINAL_STATUS_MAX)")
  ELSE w

SetFinalStatus(w, r, final_status) ==
  IF final_status \notin FinalStatuses
  THEN Fail(w, "SetFinalStatus: DCHECK(final_status >= USED && final_status < MAX)")
  ELSE IF w.recs[r].final_status # FINAL_STATUS_MAX
  THEN Fail(w, "SetFinalStatus: DCHECK(final_status_ == FINAL_STATUS_MAX)")
  ELSE [w EXCEPT !.recs[r].final_status = final_status]

-----------------------------------------------------------------------------
(* Cancellation, eligibility, aliases, match-complete replacement.  These   *)
(* handlers call each other: Destroy -> MoveEntryToPendingDelete ->         *)
(* CreateMatchCompleteReplacement -> Init -> AddAliasURL -> CheckURL ->     *)
(* Destroy.                                                                 *)

RECURSIVE Destroy(_, _, _)
RECURSIVE CreateMatchCompleteReplacement(_, _)

\* The manager queues the record for deferred deletion; it may turn a started
\* record into the target of a match-complete replacement while doing so.
MoveEntryToPendingDelete(w, r, final_status) ==
  LET w1 == See([w EXCEPT !.pending_delete = Append(@, <<r, final_status>>)],
                "manager", "MoveEntryToPendingDelete", r)
  IN IF /\ w.in.convert
        /\ r = "orig"
        /\ ~w.recs["clone"].exists
        /\ w.recs[r].prerendering_has_started
        /\ w.recs[r].match_complete_status = MATCH_COMPLETE_DEFAULT
     THEN CreateMatchCompleteReplacement(w1, r)
     ELSE w1

\* Faulty variant: no stop notification for a record that is a replacement or
\* that the manager has just replaced.
DestroyTail_SuppressesStopWhenReplaced(w, r, final_status) ==
  The({IF ~Ok(w1) THEN w1
       ELSE The({IF ~Ok(w4) THEN w4
                 ELSE IF /\ ~IsControlGroup(w4)
                         /\ w4.recs[r].prerendering_has_started
                         /\ w4.recs[r].match_complete_status #
                              MATCH_COMPLETE_REPLACEMENT
                         /\ w4.recs["clone"].exists = w.recs["clone"].exists
                 THEN NotifyPrerenderStop(w4, r)
                 ELSE w4 :
                 w4 \in {MoveEntryToPendingDelete(
                           AddToHistory(
                             [w1 EXCEPT
                                !.recs[r].prerendering_has_been_cancelled = TRUE],
                             r),
                           r, final_status)}}) :
       w1 \in {SetFinalStatus(w, r, final_status)}})

\* Destroy, from SetFinalStatus(final_status) on (lines 698-713).
\* Faulty variant: the record is added to the history before its final
\* status is set.
DestroyTail_HistoryFirst(w, r, final_status) ==
  The({IF ~Ok(w1) THEN w1
       ELSE The({IF ~Ok(w4) THEN w4
                 ELSE IF /\ ~IsControlGroup(w4)
                         /\ \/ w4.recs[r].prerendering_has_started
                            \/ w4.recs[r].match_complete_status =
                                 MATCH_COMPLETE_REPLACEMENT
                 THEN NotifyPrerenderStop(w4, r)
                 ELSE w4 :
                 w4 \in {MoveEntryToPendingDelete(
                           [w1 EXCEPT
                              !.recs[r].prerendering_has_been_cancelled = TRUE],
                           r, final_status)}}) :
       w1 \in {SetFinalStatus(AddToHistory(w, r), r, final_status)}})

DestroyTail(w, r, final_status) ==
  The({IF ~Ok(w1) THEN w1
       ELSE The({IF ~Ok(w4) THEN w4
                 ELSE IF /\ ~IsControlGroup(w4)
                         /\ \/ w4.recs[r].prerendering_has_started
                            \/ w4.recs[r].match_complete_status =
                                 MATCH_COMPLETE_REPLACEMENT
                 THEN NotifyPrerenderStop(w4, r)
                 ELSE w4 :
                 w4 \in {MoveEntryToPendingDelete(
                           AddToHistory(
                             [w1 EXCEPT
                                !.recs[r].prerendering_has_been_cancelled = TRUE],
                             r),
                           r, final_status)}}) :
       w1 \in {SetFinalStatus(w, r, final_status)}})

\* Destroy's call to the tracker (lines 682-689).  The home thread stops after
\* TryCancel, at pc "Destroy": the tracker's lock is released there and other
\* threads may run before GetFinalStatus.  What the manager knows (the pages
\* recently navigated to) is home-thread data and stays as it is meanwhile.
DestroyTryCancel(w, r, final_status) ==
  The({IF ~t.ret
       THEN Fail(t.w, "Destroy: CHECK(is_cancelled)")
       ELSE [t.w EXCEPT
               !.cancel_log[HomeThread] =
                  [pair |-> Pair(w.recs[r]), reason |-> final_status,
                   got |-> "pending"],
               !.pc = [at |-> "Destroy", rec |-> r,
                       final_status |-> final_status,
                       recent |-> w.in.recent]] :
       t \in {Tracker_TryCancel(w, Pair(w.recs[r]), final_status)}})

\* Faulty variant: the tracker is bypassed although a pair is assigned.
Destroy_SkipsTracker(w, r, final_status) ==
  IF final_status = FINAL_STATUS_USED
  THEN Fail(w, "Destroy: DCHECK_NE(final_status, FINAL_STATUS_USED)")
  ELSE IF w.recs[r].prerendering_has_been_cancelled THEN w
  ELSE DestroyTail(w, r, final_status)

\* Faulty variant: the early return on prerendering_has_been_cancelled_ is
\* missing.
Destroy_NoCancelledCheck(w, r, final_status) ==
  IF final_status = FINAL_STATUS_USED
  THEN Fail(w, "Destroy: DCHECK_NE(final_status, FINAL_STATUS_USED)")
  ELSE IF w.recs[r].child_id # NoId /\ w.recs[r].route_id # NoId
  THEN DestroyTryCancel(w, r, final_status)
  ELSE DestroyTail(w, r, final_status)

\* Destroy up to and including the tracker's TryCancel (lines 676-689); with
\* no pair assigned, the whole of Destroy.
Destroy(w, r, final_status) ==
  IF final_status = FINAL_STATUS_USED
  THEN Fail(w, "Destroy: DCHECK_NE(final_status, FINAL_STATUS_USED)")
  ELSE IF w.recs[r].prerendering_has_been_cancelled THEN w
  ELSE IF w.recs[r].child_id # NoId /\ w.recs[r].route_id # NoId
  THEN DestroyTryCancel(w, r, final_status)
  ELSE DestroyTail(w, r, final_status)

\* Destroy from GetFinalStatus on (lines 691-713): the tracker's status
\* replaces the requested one.
\* Faulty variant: the status reported by the tracker is ignored and the
\* locally requested reason is kept.
DestroyResume_KeepsOwnReason(w) ==
  The({IF ~g.found THEN Fail(w, "Destroy: NOTREACHED()")
       ELSE DestroyTail([w EXCEPT !.pc = Idle, !.in.recent = w.pc.recent,
                                  !.cancel_log[HomeThread].got =
                                     w.pc.final_status],
                        w.pc.rec, w.pc.final_status) :
       g \in {Tracker_GetFinalStatus(w, Pair(w.recs[w.pc.rec]))}})

DestroyResume(w) ==
  The({IF ~g.found THEN Fail(w, "Destroy: NOTREACHED()")
       ELSE DestroyTail([w EXCEPT !.pc = Idle, !.in.recent = w.pc.recent,
                                  !.cancel_log[HomeThread].got = g.status],
                        w.pc.rec, g.status) :
       g \in {Tracker_GetFinalStatus(w, Pair(w.recs[w.pc.rec]))}})

\* Whether the home thread is inside Destroy, between the two tracker calls.
InDestroy(w) == w.pc.at = "Destroy"

\* Faulty variant: the recently-visited check runs before the scheme checks.
CheckURL_RecentFirst(w, r, url) ==
  LET http == SchemeIs(url, kHttpScheme)
      https == SchemeIs(url, kHttpsScheme)
      pending == w.recs[r].match_complete_status =
                   MATCH_COMPLETE_REPLACEMENT_PENDING
  IN IF ~pending /\ HasRecentlyBeenNavigatedTo(w, url)
     THEN [w |-> Destroy(w, r, "RECENTLY_VISITED"), ret |-> FALSE]
     ELSE IF ~http /\ ~https
     THEN IF pending
          THEN [w |-> Fail(w, "CheckURL: DCHECK_NE(MATCH_COMPLETE_REPLACEMENT_PENDING, match_complete_status_)"),
                ret |-> FALSE]
          ELSE [w |-> Destroy(w, r, "UNSUPPORTED_SCHEME"), ret |-> FALSE]
     ELSE IF https /\ ~w.config.https_allowed
     THEN IF pending
          THEN [w |-> Fail(w, "CheckURL: DCHECK_NE(MATCH_COMPLETE_REPLACEMENT_PENDING, match_complete_status_)"),
                ret |-> FALSE]
          ELSE [w |-> Destroy(w, r, "HTTPS"), ret |-> FALSE]
     ELSE [w |-> w, ret |-> TRUE]

\* Faulty variant: the recently-visited check ignores match_complete_status_.
CheckURL_NoPendingExemption(w, r, url) ==
  LET http == SchemeIs(url, kHttpScheme)
      https == SchemeIs(url, kHttpsScheme)
      pending == w.recs[r].match_complete_status =
                   MATCH_COMPLETE_REPLACEMENT_PENDING
  IN IF ~http /\ ~https
     THEN IF pending
          THEN [w |-> Fail(w, "CheckURL: DCHECK_NE(MATCH_COMPLETE_REPLACEMENT_PENDING, match_complete_status_)"),
                ret |-> FALSE]
          ELSE [w |-> Destroy(w, r, "UNSUPPORTED_SCHEME"), ret |-> FALSE]
     ELSE IF https /\ ~w.config.https_allowed
     THEN IF pending
          THEN [w |-> Fail(w, "CheckURL: DCHECK_NE(MATCH_COMPLETE_REPLACEMENT_PENDING, match_complete_status_)"),
                ret |-> FALSE]
          ELSE [w |-> Destroy(w, r, "HTTPS"), ret |-> FALSE]
     ELSE IF HasRecentlyBeenNavigatedTo(w, url)
     THEN [w |-> Destroy(w, r, "RECENTLY_VISITED"), ret |-> FALSE]
     ELSE [w |-> w, ret |-> TRUE]

CheckURL(w, r, url) ==
  LET http == SchemeIs(url, kHttpScheme)
      https == SchemeIs(url, kHttpsScheme)
      pending == w.recs[r].match_complete_status =
                   MATCH_COMPLETE_REPLACEMENT_PENDING
  IN IF ~http /\ ~https
     THEN IF pending
          THEN [w |-> Fail(w, "CheckURL: DCHECK_NE(MATCH_COMPLETE_REPLACEMENT_PENDING, match_complete_status_)"),
                ret |-> FALSE]
          ELSE [w |-> Destroy(w, r, "UNSUPPORTED_SCHEME"), ret |-> FALSE]
     ELSE IF https /\ ~w.config.https_allowed
     THEN IF pending
          THEN [w |-> Fail(w, "CheckURL: DCHECK_NE(MATCH_COMPLETE_REPLACEMENT_PENDING, match_complete_status_)"),
                ret |-> FALSE]
          ELSE [w |-> Destroy(w, r, "HTTPS"), ret |-> FALSE]
     ELSE IF ~pending /\ HasRecentlyBeenNavigatedTo(w, url)
     THEN [w |-> Destroy(w, r, "RECENTLY_VISITED"), ret |-> FALSE]
     ELSE [w |-> w, ret |-> TRUE]

\* Faulty variant: the URL is appended whatever CheckURL answers.
AddAliasURL_NoCheck(w, r, url) ==
  The({[w |-> [c.w EXCEPT !.recs[r].alias_urls = Append(@, url)],
        ret |-> c.ret] :
       c \in {CheckURL(w, r, url)}})

\* Faulty variant: the URL is inserted at the front of alias_urls_.
AddAliasURL_Prepends(w, r, url) ==
  The({IF ~c.ret THEN [w |-> c.w, ret |-> FALSE]
       ELSE [w |-> [c.w EXCEPT !.recs[r].alias_urls = <<url>> \o @],
             ret |-> TRUE] :
       c \in {CheckURL(w, r, url)}})

AddAliasURL(w, r, url) ==
  The({IF ~c.ret THEN [w |-> c.w, ret |-> FALSE]
       ELSE [w |-> [c.w EXCEPT !.recs[r].alias_urls = Append(@, url)],
             ret |-> TRUE] :
       c \in {CheckURL(w, r, url)}})

InitContents(w, r) ==
  The({[w |-> [a.w EXCEPT !.recs[r].inited = TRUE], ret |-> a.ret] :
       a \in {AddAliasURL(w, r, w.recs[r].prerender_url)}})

\* Faulty variant: the new record is not marked replacement-pending.
NewContents_NotPending(w, r) ==
  [w EXCEPT !.recs["clone"] =
     [PrerenderContents(w.recs[r].prerender_url) EXCEPT
        !.load_start_time_null = w.recs[r].load_start_time_null,
        !.session_storage_namespace_id =
           w.recs[r].session_storage_namespace_id]]

\* CreateMatchCompleteReplacement up to its call of Init (lines 240-247):
\* the new record exists, replacement-pending, with no alias yet.
NewContents(w, r) ==
  [w EXCEPT !.recs["clone"] =
     [PrerenderContents(w.recs[r].prerender_url) EXCEPT
        !.load_start_time_null = w.recs[r].load_start_time_null,
        !.session_storage_namespace_id =
           w.recs[r].session_storage_namespace_id,
        !.match_complete_status = MATCH_COMPLETE_REPLACEMENT_PENDING]]

\* Faulty variant: the original's aliases are not copied to the new record.
CreateMatchCompleteReplacement_KeepsInitAlias(w, r) ==
  The({IF ~Ok(i.w) THEN i.w
       ELSE IF ~i.ret
       THEN Fail(i.w, "CreateMatchCompleteReplacement: DCHECK(did_init)")
       ELSE IF i.w.recs[r].alias_urls = <<>>
       THEN Fail(i.w, "CreateMatchCompleteReplacement: alias_urls_.front() of an empty vector")
       ELSE NotifyPrerenderCreatedMatchCompleteReplacement(
              [i.w EXCEPT !.recs["clone"].match_complete_status =
                             MATCH_COMPLETE_REPLACEMENT],
              r) :
       i \in {InitContents(NewContents(w, r), "clone")}})

CreateMatchCompleteReplacement(w, r) ==
  The({IF ~Ok(i.w) THEN i.w
       ELSE IF ~i.ret
       THEN Fail(i.w, "CreateMatchCompleteReplacement: DCHECK(did_init)")
       ELSE IF i.w.recs[r].alias_urls = <<>>
       THEN Fail(i.w, "CreateMatchCompleteReplacement: alias_urls_.front() of an empty vector")
       ELSE IF Head(i.w.recs[r].alias_urls) # Head(i.w.recs["clone"].alias_urls)
       THEN Fail(i.w, "CreateMatchCompleteReplacement: DCHECK_EQ(alias_urls_.front(), new_contents->alias_urls_.front())")
       ELSE IF Len(i.w.recs["clone"].alias_urls) # 1
       THEN Fail(i.w, "CreateMatchCompleteReplacement: DCHECK_EQ(1u, new_contents->alias_urls_.size())")
       ELSE NotifyPrerenderCreatedMatchCompleteReplacement(
              [i.w EXCEPT !.recs["clone"].alias_urls = i.w.recs[r].alias_urls,
                          !.recs["clone"].match_complete_status =
                             MATCH_COMPLETE_REPLACEMENT],
              r) :
       i \in {InitContents(NewContents(w, r), "clone")}})

\* Faulty variant: the session storage namespace is not compared.
Matches_IgnoresNamespace(w, r, url, session_storage_namespace) ==
  Cardinality({i \in DOMAIN w.recs[r].alias_urls :
                 w.recs[r].alias_urls[i] = url}) # 0

Matches(w, r, url, session_storage_namespace) ==
  IF /\ ~session_storage_namespace.null
     /\ w.recs[r].session_storage_namespace_id # session_storage_namespace.id
  THEN FALSE
  ELSE Cardinality({i \in DOMAIN w.recs[r].alias_urls :
                      w.recs[r].alias_urls[i] = url}) # 0

-----------------------------------------------------------------------------
(* Start and use *)

\* Faulty variant: the two early returns for the control cases are missing.
StartPrerendering_IgnoresControl(w, r, creator_child_id, size_empty, namespace_id, pair, always_control) ==
  LET c == w.recs[r]
      w1 == [w EXCEPT !.recs[r].creator_child_id = creator_child_id,
                      !.recs[r].session_storage_namespace_id = namespace_id,
                      !.recs[r].size_empty = FALSE]
      w2 == [w1 EXCEPT !.recs[r].load_start_time_null = FALSE]
      w3 == [w2 EXCEPT !.recs[r].prerendering_has_started = TRUE,
                       !.recs[r].prerender_contents = TRUE,
                       !.recs[r].child_id = pair[1],
                       !.recs[r].route_id = pair[2]]
  IN IF size_empty
     THEN Fail(w, "StartPrerendering: DCHECK(!size.IsEmpty())")
     ELSE IF c.prerendering_has_started
     THEN Fail(w, "StartPrerendering: DCHECK(!prerendering_has_started_)")
     ELSE IF c.prerender_contents
     THEN Fail(w, "StartPrerendering: DCHECK(prerender_contents_.get() == NULL)")
     ELSE IF c.creator_child_id # -1
     THEN Fail(w, "StartPrerendering: DCHECK_EQ(-1, creator_child_id_)")
     ELSE IF ~c.size_empty
     THEN Fail(w, "StartPrerendering: DCHECK(size_.IsEmpty())")
     ELSE IF Len(c.alias_urls) # 1
     THEN Fail(w, "StartPrerendering: DCHECK_EQ(1U, alias_urls_.size())")
     ELSE IF ~c.load_start_time_null
     THEN Fail(w1, "StartPrerendering: DCHECK(load_start_time_.is_null())")
     ELSE The({IF ~Ok(w4) THEN w4
               ELSE The({IF ~Ok(w5) THEN w5
                         ELSE [w5 EXCEPT !.recs[r].navigation_issued = TRUE] :
                         w5 \in {NotifyPrerenderStart(w4, r)}}) :
               w4 \in {AddObserver(w3, r, "tracker")}})

\* Faulty variant: the DCHECKs that Start has not run before are missing.
StartPrerendering_Restartable(w, r, creator_child_id, size_empty, namespace_id, pair, always_control) ==
  LET c == w.recs[r]
      w1 == [w EXCEPT !.recs[r].creator_child_id = creator_child_id,
                      !.recs[r].session_storage_namespace_id = namespace_id,
                      !.recs[r].size_empty = FALSE]
      w2 == [w1 EXCEPT !.recs[r].load_start_time_null = FALSE]
      w3 == [w2 EXCEPT !.recs[r].prerendering_has_started = TRUE,
                       !.recs[r].prerender_contents = TRUE,
                       !.recs[r].child_id = pair[1],
                       !.recs[r].route_id = pair[2]]
  IN IF size_empty
     THEN Fail(w, "StartPrerendering: DCHECK(!size.IsEmpty())")
     ELSE IF Len(c.alias_urls) # 1
     THEN Fail(w, "StartPrerendering: DCHECK_EQ(1U, alias_urls_.size())")
     ELSE IF IsControlGroup(w2) THEN w2
     ELSE IF always_control THEN w2
     ELSE The({IF ~Ok(w4) THEN w4
               ELSE The({IF ~Ok(w5) THEN w5
                         ELSE [w5 EXCEPT !.recs[r].navigation_issued = TRUE] :
                         w5 \in {NotifyPrerenderStart(w4, r)}}) :
               w4 \in {AddObserver(w3, r, "tracker")}})

StartPrerendering(w, r, creator_child_id, size_empty, namespace_id, pair, always_control) ==
  LET c == w.recs[r]
      w1 == [w EXCEPT !.recs[r].creator_child_id = creator_child_id,
                      !.recs[r].session_storage_namespace_id = namespace_id,
                      !.recs[r].size_empty = FALSE]
      w2 == [w1 EXCEPT !.recs[r].load_start_time_null = FALSE]
      w3 == [w2 EXCEPT !.recs[r].prerendering_has_started = TRUE,
                       !.recs[r].prerender_contents = TRUE,
                       !.recs[r].child_id = pair[1],
                       !.recs[r].route_id = pair[2]]
  IN IF size_empty
     THEN Fail(w, "StartPrerendering: DCHECK(!size.IsEmpty())")
     ELSE IF c.prerendering_has_started
     THEN Fail(w, "StartPrerendering: DCHECK(!prerendering_has_started_)")
     ELSE IF c.prerender_contents
     THEN Fail(w, "StartPrerendering: DCHECK(prerender_contents_.get() == NULL)")
     ELSE IF c.creator_child_id # -1
     THEN Fail(w, "StartPrerendering: DCHECK_EQ(-1, creator_child_id_)")
     ELSE IF ~c.size_empty
     THEN Fail(w, "StartPrerendering: DCHECK(size_.IsEmpty())")
     ELSE IF Len(c.alias_urls) # 1
     THEN Fail(w, "StartPrerendering: DCHECK_EQ(1U, alias_urls_.size())")
     ELSE IF ~c.load_start_time_null
     THEN Fail(w1, "StartPrerendering: DCHECK(load_start_time_.is_null())")
     ELSE IF IsControlGroup(w2) THEN w2
     ELSE IF always_control THEN w2
     ELSE The({IF ~Ok(w4) THEN w4
               ELSE The({IF ~Ok(w5) THEN w5
                         ELSE [w5 EXCEPT !.recs[r].navigation_issued = TRUE] :
                         w5 \in {NotifyPrerenderStart(w4, r)}}) :
               w4 \in {AddObserver(w3, r, "tracker")}})

RenderFrameCreated(w, render_frame_host) ==
  [w EXCEPT !.render_frame_hosts = @ \cup {render_frame_host},
            !.frame_msgs = Append(@, <<render_frame_host, TRUE>>)]

\* Faulty variant: the frame host stays in render_frame_hosts_.
RenderFrameDeleted_KeepsHost(w, render_frame_host) == w

RenderFrameDeleted(w, render_frame_host) ==
  [w EXCEPT !.render_frame_hosts = @ \ {render_frame_host}]

AddPendingPrerender(w, pending_prerender_info) ==
  [w EXCEPT !.pending_prerenders = Append(@, pending_prerender_info)]

\* PrerenderManager::StartPendingPrerenders: the manager takes each request of
\* the list, with the process id and the namespace it is given.
StartPendingPrerenders(w, process_id, pending, has_namespace) ==
  [w EXCEPT !.started_prerenders =
     @ \o [i \in 1..Len(pending) |->
             [info |-> pending[i], process_id |-> process_id,
              has_namespace |-> has_namespace]]]

\* The loop of PrepareForUse over render_frame_hosts_ (a std::set, walked in
\* ascending order): one SetIsPrerendering(false) to each host of the set.
RECURSIVE SendNotPrerendering(_, _)
SendNotPrerendering(msgs, hosts) ==
  IF hosts = {} THEN msgs
  ELSE \* the least host of the set
       LET h == CHOOSE x \in hosts : \A y \in hosts : x <= y
       IN SendNotPrerendering(Append(msgs, <<h, FALSE>>), hosts \ {h})

\* Faulty variant: the observers are told that loading stopped.
PrepareForUse_StopLoading(w, r) == NotifyPrerenderStopLoading(w, r)

PrepareForUse(w, r) ==
  The({IF ~Ok(w2) THEN w2
       ELSE [StartPendingPrerenders(w2, w2.recs[r].child_id,
                                    w2.pending_prerenders,
                                    w2.recs[r].prerender_contents)
               EXCEPT !.pending_prerenders = <<>>] :
       w2 \in {NotifyPrerenderStop(
                 [w EXCEPT !.frame_msgs =
                              SendNotPrerendering(@, w.render_frame_hosts),
                           !.render_frame_hosts = {}],
                 r)}})

-----------------------------------------------------------------------------
(* The memory guard and the release of the hidden session *)

\* config().max_bytes, the ceiling on the private bytes of a prerender.
max_bytes == 2

\* What the hidden session answers when asked for its process: no render view
\* host, a host without process, a process whose handle is the null handle,
\* or a process with a handle.
ProcessStates == {"no_host", "no_process", "null_handle", "handle"}

GetRenderViewHost(w, r, process) ==
  IF ~w.recs[r].prerender_contents THEN FALSE ELSE process # "no_host"

\* ret: whether a ProcessMetrics object is returned.  process_metrics_ is
\* created at the first call that finds a handle and returned by every later
\* call, whatever has become of the hidden session.
MaybeGetProcessMetrics(w, r, process) ==
  IF ~w.recs[r].process_metrics
  THEN IF ~GetRenderViewHost(w, r, process) \/ process = "no_process"
       THEN [w |-> w, ret |-> FALSE]
       ELSE IF process = "null_handle"
       THEN [w |-> w, ret |-> FALSE]
       ELSE [w |-> [w EXCEPT !.recs[r].process_metrics = TRUE], ret |-> TRUE]
  ELSE [w |-> w, ret |-> TRUE]

\* sample: whether GetMemoryBytes succeeds, and the private bytes it reports.
DestroyWhenUsingTooManyResources(w, r, process, sample) ==
  The({IF ~m.ret THEN m.w
       ELSE IF sample.ok /\ sample.private_bytes > max_bytes
       THEN Destroy(m.w, r, "MEMORY_LIMIT_EXCEEDED")
       ELSE m.w :
       m \in {MaybeGetProcessMetrics(w, r, process)}})

\* The hidden session is handed to the caller; the record stops observing it.
ReleasePrerenderContents(w, r) ==
  [w EXCEPT !.recs[r].prerender_contents = FALSE]

\* Faulty variant: the destructor asserts nothing.
Destructor_NoChecks(w, r) ==
  [w EXCEPT !.recs[r].exists = FALSE, !.recs[r].prerender_contents = FALSE]

\* ~PrerenderContents: the two assertions on the final status, then the
\* hidden session, if the record still has one, is released and deleted.
\* (The origin, the statistics and the alias broadcast are not modelled.)
Destructor(w, r) ==
  IF w.recs[r].final_status = FINAL_STATUS_MAX
  THEN Fail(w, "~PrerenderContents: DCHECK_NE(FINAL_STATUS_MAX, final_status())")
  ELSE IF ~(\/ w.recs[r].prerendering_has_been_cancelled
            \/ w.recs[r].final_status = FINAL_STATUS_USED)
  THEN Fail(w, "~PrerenderContents: DCHECK(prerendering_has_been_cancelled() || final_status() == FINAL_STATUS_USED)")
  ELSE The({[w1 EXCEPT !.recs[r].exists = FALSE] :
            w1 \in {IF w.recs[r].prerender_contents
                    THEN ReleasePrerenderContents(w, r) ELSE w}})

-----------------------------------------------------------------------------
(* Favicon updates *)

FAVICON == "FAVICON"
TOUCH_ICON == "TOUCH_ICON"
IconUrls == {"icon1", "icon2"}
FaviconURL == [icon_type : {FAVICON, TOUCH_ICON}, icon_url : IconUrls]

\* Faulty variant: the loop goes on after a FAVICON entry, so that the last
\* one of the update is kept.
RECURSIVE FaviconLoop_NoReturn(_, _, _, _)
FaviconLoop_NoReturn(w, r, urls, it) ==
  IF it > Len(urls) THEN w
  ELSE IF urls[it].icon_type = FAVICON
  THEN FaviconLoop_NoReturn([w EXCEPT !.recs[r].icon_url = urls[it].icon_url],
                            r, urls, it + 1)
  ELSE FaviconLoop_NoReturn(w, r, urls, it + 1)

\* The loop of DidUpdateFaviconURL from position `it` of the vector on.
RECURSIVE FaviconLoop(_, _, _, _)
FaviconLoop(w, r, urls, it) ==
  IF it > Len(urls) THEN w
  ELSE IF urls[it].icon_type = FAVICON
  THEN [w EXCEPT !.recs[r].icon_url = urls[it].icon_url]
  ELSE FaviconLoop(w, r, urls, it + 1)

DidUpdateFaviconURL(w, r, urls) == FaviconLoop(w, r, urls, 1)

-----------------------------------------------------------------------------
(* Navigation observation *)

DidStopLoading(w, r) ==
  NotifyPrerenderStopLoading([w EXCEPT !.recs[r].has_stopped_loading = TRUE], r)

DidFinishLoad(w, r, is_main_frame) ==
  IF is_main_frame THEN [w EXCEPT !.recs[r].has_finished_loading = TRUE]
  ELSE w

\* Faulty variant: the two loading flags are left as they are.
DidStartProvisionalLoadForFrame_KeepsFlags(w, r, is_main_frame, validated_url) ==
  IF is_main_frame THEN CheckURL(w, r, validated_url).w ELSE w

\* Faulty variant: the URL of a main-frame provisional load is taken as an
\* alias, as if it were a commit.
DidStartProvisionalLoadForFrame_AddsAlias(w, r, is_main_frame, validated_url) ==
  IF is_main_frame THEN AddAliasURL(w, r, validated_url).w ELSE w

DidStartProvisionalLoadForFrame(w, r, is_main_frame, validated_url) ==
  IF is_main_frame
  THEN The({IF ~c.ret THEN c.w
            ELSE [c.w EXCEPT !.recs[r].has_stopped_loading = FALSE,
                             !.recs[r].has_finished_loading = FALSE] :
            c \in {CheckURL(w, r, validated_url)}})
  ELSE w

\* Faulty variant: the loop goes on after a rejected URL.
RECURSIVE AddRedirects_GoesOn(_, _, _, _)
AddRedirects_GoesOn(w, r, redirects, i) ==
  IF i > Len(redirects) THEN w
  ELSE The({AddRedirects_GoesOn(a.w, r, redirects, i + 1) :
            a \in {AddAliasURL(w, r, redirects[i])}})

RECURSIVE AddRedirects(_, _, _, _)
AddRedirects(w, r, redirects, i) ==
  IF i > Len(redirects) THEN w
  ELSE The({IF ~a.ret THEN a.w
            ELSE AddRedirects(a.w, r, redirects, i + 1) :
            a \in {AddAliasURL(w, r, redirects[i])}})

\* Faulty variant: the redirects are added as aliases before the entry count
\* is looked at.
DidNavigateMainFrame_RedirectsFirst(w, r, entry_count, redirects) ==
  The({IF entry_count > 1 /\ Ok(a) THEN Destroy(a, r, "NEW_NAVIGATION_ENTRY")
       ELSE a :
       a \in {AddRedirects(w, r, redirects, 1)}})

DidNavigateMainFrame(w, r, entry_count, redirects) ==
  IF entry_count > 1 THEN Destroy(w, r, "NEW_NAVIGATION_ENTRY")
  ELSE AddRedirects(w, r, redirects, 1)

\* Faulty variant: the resource type is not looked at.
DidGetRedirectForResourceRequest_AnyResource(w, r, is_main_frame_resource, new_url) ==
  CheckURL(w, r, new_url).w

DidGetRedirectForResourceRequest(w, r, is_main_frame_resource, new_url) ==
  IF ~is_main_frame_resource THEN w
  ELSE CheckURL(w, r, new_url).w

-----------------------------------------------------------------------------
(* Navigation entries seen while hidden, and their replay into the tab that *)
(* takes the page over.  add_page_vector_ is read and written by these two  *)
(* handlers only.                                                           *)

AddPageArgs == {"page1", "page2"}

DidNavigate(vector, add_page_args) == Append(vector, add_page_args)

\* HistoryTabHelper::UpdateHistoryForNavigation: the tab's history service is
\* told of one more page.
UpdateHistoryForNavigation(tab, add_page_args) == Append(tab, add_page_args)

\* Faulty variant: the loop runs from the last entry down to the first.
RECURSIVE CommitHistory_Backwards(_, _, _)
CommitHistory_Backwards(vector, tab, i) ==
  IF i + 1 > Len(vector) THEN tab
  ELSE CommitHistory_Backwards(
         vector, UpdateHistoryForNavigation(tab, vector[Len(vector) - i]),
         i + 1)

\* The loop of CommitHistory from index i (0-based, as in the source) on.
RECURSIVE CommitHistory(_, _, _)
CommitHistory(vector, tab, i) ==
  IF i + 1 > Len(vector) THEN tab
  ELSE CommitHistory(vector, UpdateHistoryForNavigation(tab, vector[i + 1]),
                     i + 1)

-----------------------------------------------------------------------------
(* WebContentsDelegateImpl, notifications, IPC *)

OpenURLFromTab(w, r) == Destroy(w, r, "OPEN_URL")
CanDownload(w, r) == Destroy(w, r, "DOWNLOAD")
\* Faulty variant: the request cancels the record.
OnGoToEntryOffset_Cancels(w, r) == Destroy(w, r, "CANCELLED")
\* The request is refused (the handler returns false) and nothing is written.
OnGoToEntryOffset(w, r) == w
JSOutOfMemory(w, r) == Destroy(w, r, "JS_OUT_OF_MEMORY")
ShouldSuppressDialogs(w, r) == Destroy(w, r, "JAVASCRIPT_ALERT")
RegisterProtocolHandler(w, r) == Destroy(w, r, "REGISTER_PROTOCOL_HANDLER")
RenderProcessGone(w, r) == Destroy(w, r, "RENDERER_CRASHED")
OnCancelPrerenderForPrinting(w, r) == Destroy(w, r, "WINDOW_PRINT")

NotificationTypes ==
  {"NOTIFICATION_PROFILE_DESTROYED", "NOTIFICATION_APP_TERMINATING"}
\* Faulty variant: application termination cancels with the reason of profile
\* destruction.
Observe_OneReason(w, r, type) ==
  IF type \in NotificationTypes
  THEN Destroy(w, r, "PROFILE_DESTROYED")
  ELSE Fail(w, "Observe: NOTREACHED()")

Observe(w, r, type) ==
  IF type = "NOTIFICATION_PROFILE_DESTROYED"
  THEN Destroy(w, r, "PROFILE_DESTROYED")
  ELSE IF type = "NOTIFICATION_APP_TERMINATING"
  THEN Destroy(w, r, "APP_TERMINATING")
  ELSE Fail(w, "Observe: NOTREACHED()")

-----------------------------------------------------------------------------
(* The state machine *)

Chains(n) == UNION {[1..k -> URLs] : k \in 0..n}

Init ==
  /\ \E url \in URLs :
       recs = [r \in RecordIds |->
                 IF r = "orig" THEN PrerenderContents(url) ELSE NoRecord]
  /\ tracker = <<>>
  /\ history = <<>>
  /\ pending_delete = <<>>
  /\ cancel_log = [t \in {HomeThread} \cup ForeignThreads |-> NoRequest]
  /\ fatal = NoFatal
  /\ pc = Idle
  /\ config \in [https_allowed : BOOLEAN, control_group : BOOLEAN]
  /\ add_page_vector = <<>>
  /\ tab_history = <<>>
  /\ render_frame_hosts = {}
  /\ frame_msgs = <<>>
  /\ pending_prerenders = <<>>
  /\ started_prerenders = <<>>
  /\ seen = <<>>

\* A handler's result becomes the next state.  A failed assertion aborts the
\* process: nothing the aborted handler wrote is seen by anyone afterwards.
Apply(result) ==
  \E w \in {result} :
    IF w.fatal # NoFatal
    THEN /\ fatal' = w.fatal
         /\ UNCHANGED <<recs, tracker, history, pending_delete, cancel_log, pc,
                        config, add_page_vector, tab_history,
                        render_frame_hosts, frame_msgs, pending_prerenders,
                        started_prerenders, seen>>
    ELSE /\ UNCHANGED <<add_page_vector, tab_history>>
         /\ seen' = w.seen
         /\ render_frame_hosts' = w.render_frame_hosts
         /\ frame_msgs' = w.frame_msgs
         /\ pending_prerenders' = w.pending_prerenders
         /\ started_prerenders' = w.started_prerenders
         /\ recs' = w.recs
         /\ tracker' = w.tracker
         /\ history' = w.history
         /\ pending_delete' = w.pending_delete
         /\ cancel_log' = w.cancel_log
         /\ fatal' = w.fatal
         /\ pc' = w.pc
         /\ config' = w.config

\* The home thread is between handlers and the process has not aborted.
HomeReady == fatal = NoFatal /\ pc = Idle

Live(r) == recs[r].exists

\* The manager holds a record until the record is cancelled (Destroy moves it
\* to the pending-delete list).
Held(r) == ~recs[r].prerendering_has_been_cancelled

InitAct(r, in) ==
  /\ HomeReady /\ Live(r) /\ r = "orig" /\ ~recs[r].inited
  /\ Apply(InitContents(World(in), r).w)

\* The manager starts the records it still holds; it may wrongly start one
\* twice, and it may wrongly pass an empty size the first time.
StartPrerenderingAct(r, creator, size_empty, ns, pair, always_control) ==
  /\ HomeReady /\ Live(r) /\ Held(r)
  /\ size_empty => recs[r].creator_child_id = -1
  /\ Apply(StartPrerendering(World(NoInput), r, creator, size_empty, ns, pair,
                             always_control))

\* A handle attaches to a record the manager has started and still holds.
AddObserverAct(r, o) ==
  /\ HomeReady /\ Live(r) /\ Held(r) /\ recs[r].creator_child_id # -1
  /\ \A i \in DOMAIN recs[r].observer_list : recs[r].observer_list[i] # o
  /\ Apply(AddObserver(World(NoInput), r, o))

\* The manager marks a record it still holds as used when it swaps it in.
SetFinalStatusAct(r, final_status) ==
  /\ HomeReady /\ Live(r) /\ Held(r)
  /\ Apply(SetFinalStatus(World(NoInput), r, final_status))

PrepareForUseAct(r) ==
  /\ HomeReady /\ Live(r)
  /\ Apply(PrepareForUse(World(NoInput), r))

AddAliasURLAct(r, url, in) ==
  /\ HomeReady /\ Live(r) /\ recs[r].inited
  /\ Len(recs[r].alias_urls) < MaxAliases
  /\ Apply(AddAliasURL(World(in), r, url).w)

\* The number of times the record's observers were told that loading stopped.
StopLoadingRounds(r) ==
  Cardinality({i \in DOMAIN recs[r].delivered :
                 recs[r].delivered[i] = <<"stop_loading", "tracker">>})

\* The hidden session reports the end of a load it has not yet reported.
DidStopLoadingAct(r) ==
  /\ HomeReady /\ Live(r) /\ recs[r].prerender_contents
  /\ ~recs[r].has_stopped_loading
  /\ StopLoadingRounds(r) < MaxStopLoading
  /\ Apply(DidStopLoading(World(NoInput), r))

DidFinishLoadAct(r, is_main_frame) ==
  /\ HomeReady /\ Live(r) /\ recs[r].prerender_contents
  /\ Apply(DidFinishLoad(World(NoInput), r, is_main_frame))

DidStartProvisionalLoadForFrameAct(r, is_main_frame, url, in) ==
  /\ HomeReady /\ Live(r) /\ recs[r].prerender_contents
  /\ Apply(DidStartProvisionalLoadForFrame(World(in), r, is_main_frame, url))

DidNavigateMainFrameAct(r, entry_count, redirects, in) ==
  /\ HomeReady /\ Live(r) /\ recs[r].prerender_contents
  /\ \E w \in {DidNavigateMainFrame(World(in), r, entry_count, redirects)} :
       Len(w.recs[r].alias_urls) <= MaxAliases /\ Apply(w)

DidGetRedirectForResourceRequestAct(r, is_main_frame_resource, url, in) ==
  /\ HomeReady /\ Live(r) /\ recs[r].prerender_contents
  /\ Apply(DidGetRedirectForResourceRequest(World(in), r,
                                            is_main_frame_resource, url))

DestroyAct(r, final_status, in) ==
  /\ HomeReady /\ Live(r)
  /\ Apply(Destroy(World(in), r, final_status))

DestroyResumeAct(in) ==
  /\ fatal = NoFatal /\ pc.at = "Destroy"
  /\ Apply(DestroyResume(World(in)))

OpenURLFromTabAct(r, in) ==
  /\ HomeReady /\ Live(r) /\ recs[r].prerender_contents
  /\ Apply(OpenURLFromTab(World(in), r))

CanDownloadAct(r, in) ==
  /\ HomeReady /\ Live(r) /\ recs[r].prerender_contents
  /\ Apply(CanDownload(World(in), r))

OnGoToEntryOffsetAct(r) ==
  /\ HomeReady /\ Live(r) /\ recs[r].prerender_contents
  /\ Apply(OnGoToEntryOffset(World(NoInput), r))

JSOutOfMemoryAct(r, in) ==
  /\ HomeReady /\ Live(r) /\ recs[r].prerender_contents
  /\ Apply(JSOutOfMemory(World(in), r))

ShouldSuppressDialogsAct(r, in) ==
  /\ HomeReady /\ Live(r) /\ recs[r].prerender_contents
  /\ Apply(ShouldSuppressDialogs(World(in), r))

RegisterProtocolHandlerAct(r, in) ==
  /\ HomeReady /\ Live(r) /\ recs[r].prerender_contents
  /\ Apply(RegisterProtocolHandler(World(in), r))

RenderProcessGoneAct(r, in) ==
  /\ HomeReady /\ Live(r) /\ recs[r].prerender_contents
  /\ Apply(RenderProcessGone(World(in), r))

OnCancelPrerenderForPrintingAct(r, in) ==
  /\ HomeReady /\ Live(r) /\ recs[r].prerender_contents
  /\ Apply(OnCancelPrerenderForPrinting(World(in), r))

ObserveAct(r, type, in) ==
  /\ HomeReady /\ Live(r) /\ recs[r].prerendering_has_started
  /\ Apply(Observe(World(in), r, type))

\* A resource-dispatch thread asks the tracker to cancel a pair it knows.
ForeignTryCancel(w, t, p) ==
  LET c == Tracker_TryCancel(w, p, ForeignReasons[t])
  IN [c.w EXCEPT !.cancel_log[t] =
        [pair |-> p, reason |-> ForeignReasons[t],
         got |-> Tracker_GetFinalStatus(c.w, p).status]]

ForeignTryCancelAct(t, p) ==
  /\ fatal = NoFatal
  /\ p \in DOMAIN tracker
  /\ cancel_log[t].reason = "none"
  /\ Apply(ForeignTryCancel(World(NoInput), t, p))

Convert == [recent : {{}}, convert : BOOLEAN]

\* The records that may own a hidden session: the clone made for a
\* match-complete replacement is bookkeeping only.
Hosts == {"orig"}

Next ==
  \/ \E r \in Hosts : \E in \in Recent({recs[r].prerender_url}) :
       InitAct(r, in)
  \/ \E r \in Hosts, c \in CreatorIds, e \in BOOLEAN, ns \in StartNamespaceIds,
        p \in ChildIds \X RouteIds, a \in BOOLEAN :
       StartPrerenderingAct(r, c, e, ns, p, a)
  \/ \E r \in Hosts : AddObserverAct(r, "handle")
  \/ \E r \in Hosts : SetFinalStatusAct(r, FINAL_STATUS_USED)
  \/ \E r \in Hosts : PrepareForUseAct(r)
  \/ \E r \in Hosts, u \in URLs : \E in \in Recent({u}) :
       AddAliasURLAct(r, u, in)
  \/ \E r \in Hosts, m \in BOOLEAN, u \in URLs : \E in \in Recent({u}) :
       (~m => in = NoInput) /\ DidStartProvisionalLoadForFrameAct(r, m, u, in)
  \/ \E r \in Hosts, n \in 1..2, c \in Chains(MaxRedirects) :
       \E in \in Recent({c[i] : i \in DOMAIN c}) :
         (n > 1 => c = <<>>) /\ DidNavigateMainFrameAct(r, n, c, in)
  \/ \E r \in Hosts, m \in BOOLEAN, u \in URLs : \E in \in Recent({u}) :
       (~m => in = NoInput) /\ DidGetRedirectForResourceRequestAct(r, m, u, in)
  \/ \E r \in RecordIds, s \in ManagerReasons :
       (r \notin Hosts => s = "CANCELLED") /\ DestroyAct(r, s, NoInput)
  \/ \E in \in Convert : DestroyResumeAct(in)
  \/ \E r \in Hosts : OpenURLFromTabAct(r, NoInput)
  \/ \E r \in Hosts : CanDownloadAct(r, NoInput)
  \/ \E r \in Hosts : OnGoToEntryOffsetAct(r)
  \/ \E r \in Hosts : JSOutOfMemoryAct(r, NoInput)
  \/ \E r \in Hosts : ShouldSuppressDialogsAct(r, NoInput)
  \/ \E r \in Hosts : RegisterProtocolHandlerAct(r, NoInput)
  \/ \E r \in Hosts : RenderProcessGoneAct(r, NoInput)
  \/ \E r \in Hosts : OnCancelPrerenderForPrintingAct(r, NoInput)
  \/ \E r \in Hosts, ty \in NotificationTypes : ObserveAct(r, ty, NoInput)
  \/ \E t \in ForeignThreads, p \in ChildIds \X RouteIds :
       ForeignTryCancelAct(t, p)

Spec == Init /\ [][Next]_vars

-----------------------------------------------------------------------------
(* The navigation entries on their own: DidNavigate and CommitHistory touch *)
(* add_page_vector_ and the tab's history only, and nothing else touches    *)
(* those, so their behaviour is explored apart from the rest.               *)

DidNavigateAct(add_page_args) ==
  /\ fatal = NoFatal
  /\ Len(add_page_vector) < MaxEntries
  /\ add_page_vector' = DidNavigate(add_page_vector, add_page_args)
  /\ UNCHANGED <<recs, tracker, history, pending_delete, cancel_log, fatal, pc,
                 config, tab_history, render_frame_hosts, frame_msgs,
                 pending_prerenders, started_prerenders, seen>>

CommitHistoryAct ==
  /\ fatal = NoFatal
  /\ Len(tab_history) + Len(add_page_vector) <= MaxTabEntries
  /\ tab_history' = CommitHistory(add_page_vector, tab_history, 0)
  /\ UNCHANGED <<recs, tracker, history, pending_delete, cancel_log, fatal, pc,
                 config, add_page_vector, render_frame_hosts, frame_msgs,
                 pending_prerenders, started_prerenders, seen>>

NextHistory ==
  \/ \E a \in AddPageArgs : DidNavigateAct(a)
  \/ CommitHistoryAct

SpecHistory == Init /\ [][NextHistory]_vars

-----------------------------------------------------------------------------
(* The child frame hosts and the pending child prerenders on their own:     *)
(* the handlers that touch render_frame_hosts_ and pending_prerenders_, and *)
(* those PrepareForUse needs before it (Init, Start, the manager marking    *)
(* the record used).                                                        *)

FrameHosts == 1..MaxHosts
PendingInfos == {"request1", "request2"}

RenderFrameCreatedAct(h) ==
  /\ HomeReady /\ Live("orig") /\ recs["orig"].prerender_contents
  /\ Len(frame_msgs) < MaxFrameMsgs
  /\ Apply(RenderFrameCreated(World(NoInput), h))

RenderFrameDeletedAct(h) ==
  /\ HomeReady /\ Live("orig") /\ recs["orig"].prerender_contents
  /\ Apply(RenderFrameDeleted(World(NoInput), h))

\* A page being prerendered asks for a prerender of its own.
AddPendingPrerenderAct(info) ==
  /\ HomeReady /\ Live("orig") /\ recs["orig"].prerender_contents
  /\ Len(pending_prerenders) + Len(started_prerenders) < MaxPending
  /\ Apply(AddPendingPrerender(World(NoInput), info))

NextFrames ==
  \/ \E r \in Hosts : \E in \in Recent({recs[r].prerender_url}) :
       InitAct(r, in)
  \/ \E r \in Hosts, c \in CreatorIds, e \in BOOLEAN, ns \in StartNamespaceIds,
        p \in ChildIds \X RouteIds, a \in BOOLEAN :
       StartPrerenderingAct(r, c, e, ns, p, a)
  \/ \E r \in Hosts : SetFinalStatusAct(r, FINAL_STATUS_USED)
  \/ \E r \in Hosts : PrepareForUseAct(r)
  \/ \E h \in FrameHosts : RenderFrameCreatedAct(h)
  \/ \E h \in FrameHosts : RenderFrameDeletedAct(h)
  \/ \E i \in PendingInfos : AddPendingPrerenderAct(i)

SpecFrames == Init /\ [][NextFrames]_vars

-----------------------------------------------------------------------------
(* The memory guard on its own: the manager starts a record, polls its      *)
(* memory, cancels it or marks it used and takes the hidden session away.   *)

Samples == [ok : BOOLEAN, private_bytes : 1..MaxPrivateBytes]

DestroyWhenUsingTooManyResourcesAct(r, process, sample) ==
  /\ HomeReady /\ Live(r)
  /\ Apply(DestroyWhenUsingTooManyResources(World(NoInput), r, process, sample))

\* The hidden session is taken from a record that was marked used (swap-in)
\* or cancelled (deletion).
ReleasePrerenderContentsAct(r) ==
  /\ HomeReady /\ Live(r) /\ recs[r].prerender_contents
  /\ recs[r].final_status # FINAL_STATUS_MAX
  /\ Apply(ReleasePrerenderContents(World(NoInput), r))

\* The manager deletes a record; it may wrongly delete one that has no final
\* status yet.
DestructorAct(r) ==
  /\ HomeReady /\ Live(r)
  /\ Apply(Destructor(World(NoInput), r))

NextMemory ==
  \/ \E r \in Hosts : \E in \in Recent({recs[r].prerender_url}) :
       InitAct(r, in)
  \/ \E r \in Hosts, c \in CreatorIds, e \in BOOLEAN, ns \in StartNamespaceIds,
        p \in ChildIds \X RouteIds, a \in BOOLEAN :
       StartPrerenderingAct(r, c, e, ns, p, a)
  \/ \E r \in Hosts : SetFinalStatusAct(r, FINAL_STATUS_USED)
  \/ \E r \in Hosts : ReleasePrerenderContentsAct(r)
  \/ \E r \in Hosts, p \in ProcessStates, s \in Samples :
       DestroyWhenUsingTooManyResourcesAct(r, p, s)
  \/ \E r \in Hosts : DestroyAct(r, "CANCELLED", NoInput)
  \/ \E in \in Convert : DestroyResumeAct(in)
  \/ \E r \in Hosts : DestructorAct(r)

SpecMemory == Init /\ [][NextMemory]_vars

-----------------------------------------------------------------------------
(* The favicon updates on their own: a record is started, its hidden        *)
(* session reports favicons, the manager cancels it.                        *)

FaviconUpdates == UNION {[1..k -> FaviconURL] : k \in 0..MaxFavicons}

DidUpdateFaviconURLAct(r, urls) ==
  /\ HomeReady /\ Live(r) /\ recs[r].prerender_contents
  /\ Apply(DidUpdateFaviconURL(World(NoInput), r, urls))

NextFavicon ==
  \/ \E r \in Hosts : \E in \in Recent({recs[r].prerender_url}) :
       InitAct(r, in)
  \/ \E r \in Hosts, c \in CreatorIds, e \in BOOLEAN, ns \in StartNamespaceIds,
        p \in ChildIds \X RouteIds, a \in BOOLEAN :
       StartPrerenderingAct(r, c, e, ns, p, a)
  \/ \E r \in Hosts, urls \in FaviconUpdates : DidUpdateFaviconURLAct(r, urls)
  \/ \E r \in Hosts : DestroyAct(r, "CANCELLED", NoInput)
  \/ \E in \in Convert : DestroyResumeAct(in)

SpecFavicon == Init /\ [][NextFavicon]_vars

-----------------------------------------------------------------------------
(* The notifications on their own: the handlers that register observers,    *)
(* notify them, or set what the notifications depend on (final status,      *)
(* started, cancelled, match-complete status, has_stopped_loading_).        *)

NextNotify ==
  \/ \E r \in Hosts : \E in \in Recent({recs[r].prerender_url}) :
       InitAct(r, in)
  \/ \E r \in Hosts, c \in CreatorIds, e \in BOOLEAN, ns \in StartNamespaceIds,
        p \in ChildIds \X RouteIds, a \in BOOLEAN :
       StartPrerenderingAct(r, c, e, ns, p, a)
  \/ \E r \in Hosts : AddObserverAct(r, "handle")
  \/ \E r \in Hosts : SetFinalStatusAct(r, FINAL_STATUS_USED)
  \/ \E r \in Hosts : PrepareForUseAct(r)
  \/ \E r \in Hosts : DidStopLoadingAct(r)
  \/ \E r \in Hosts, m \in BOOLEAN : DidFinishLoadAct(r, m)
  \/ \E r \in Hosts, m \in BOOLEAN, u \in URLs : \E in \in Recent({u}) :
       (~m => in = NoInput) /\ DidStartProvisionalLoadForFrameAct(r, m, u, in)
  \/ \E r \in RecordIds, s \in ManagerReasons :
       (r \notin Hosts => s = "CANCELLED") /\ DestroyAct(r, s, NoInput)
  \/ \E in \in Convert : DestroyResumeAct(in)

SpecNotify == Init /\ [][NextNotify]_vars

-----------------------------------------------------------------------------
(* Properties *)

Unassigned(rec) == rec.child_id = NoId \/ rec.route_id = NoId

IsPrefix(a, b) == Len(a) <= Len(b) /\ SubSeq(b, 1, Len(a)) = a

Contains(seq, x) == \E i \in DOMAIN seq : seq[i] = x

\* The cancellation Destroy(reason) leaves behind in world w for record r:
\* without a pair the record is cancelled with that reason; with a pair the
\* reason has been handed to the tracker and Destroy waits for its answer.
Requested(w, r, reason) ==
  IF Unassigned(recs[r])
  THEN /\ w.recs[r].prerendering_has_been_cancelled
       /\ w.recs[r].final_status = reason
  ELSE /\ w.cancel_log[HomeThread].reason = reason
       /\ w.pc.at = "Destroy" /\ w.pc.rec = r /\ w.pc.final_status = reason

\* C1: final_status_ leaves FINAL_STATUS_MAX at most once and never changes
\* afterwards; SetFinalStatus on a record whose status is set fails its DCHECK
\* (fatal) and leaves the stored value as it is.
C1_FinalStatusSetOnce ==
  [][\A r \in RecordIds :
       (recs[r].exists /\ recs[r].final_status # FINAL_STATUS_MAX) =>
         /\ recs'[r].final_status = recs[r].final_status
         /\ \A s \in FinalStatuses :
              LET w == SetFinalStatus(World(NoInput), r, s)
              IN w.fatal # NoFatal /\ w.recs = recs]_vars

\* A second SetFinalStatus has been attempted on a used record and was fatal.
C1_Witness ==
  /\ fatal = "SetFinalStatus: DCHECK(final_status_ == FINAL_STATUS_MAX)"
  /\ recs["orig"].final_status = FINAL_STATUS_USED

\* The threads whose cancellation request for pair p reached the tracker, and
\* those among them that have seen the tracker's answer.
Racers(p) == {t \in DOMAIN cancel_log : cancel_log[t].pair = p}
Answered(p) == {t \in Racers(p) : cancel_log[t].got # "pending"}

\* C2: when cancellation requests with different reasons race for one pair
\* (foreign TryCancel calls interleaved with the home thread's Destroy), every
\* caller sees the status the tracker holds, and that status is the reason of
\* exactly one of the requests.
C2_RacingCancelsAgree ==
  \A p \in DOMAIN tracker :
    /\ \A t \in Answered(p) : cancel_log[t].got = tracker[p]
    /\ Racers(p) # {} =>
         Cardinality({t \in Racers(p) : cancel_log[t].reason = tracker[p]}) = 1

\* The home thread and a foreign thread raced with different reasons, the
\* foreign thread won and both saw its reason.
C2_Witness ==
  /\ cancel_log[HomeThread].reason \in CancelReasons
  /\ cancel_log[HomeThread].reason # ForeignReasons[1]
  /\ cancel_log[HomeThread].got = ForeignReasons[1]
  /\ cancel_log[1].got = ForeignReasons[1]

\* C3: a record cancelled by Destroy while its pair is assigned holds the
\* status the tracker holds for the pair, also when another thread wrote a
\* different status first.
C3_DestroyAdoptsTrackerStatus ==
  \A r \in RecordIds :
    (recs[r].exists /\ recs[r].prerendering_has_been_cancelled
       /\ ~Unassigned(recs[r])) =>
      /\ Pair(recs[r]) \in DOMAIN tracker
      /\ recs[r].final_status = tracker[Pair(recs[r])]

\* Destroy asked for one reason and the record ended with the foreign one.
C3_Witness ==
  /\ recs["orig"].prerendering_has_been_cancelled
  /\ ~Unassigned(recs["orig"])
  /\ recs["orig"].final_status = ForeignReasons[1]
  /\ tracker[Pair(recs["orig"])] = ForeignReasons[1]
  /\ cancel_log[HomeThread].reason = "TIMED_OUT"

\* C4: Destroy(reason) on a record that is not cancelled and has no pair
\* leaves the tracker and the log of tracker requests alone and sets
\* final_status_ to exactly the requested reason.
C4_DestroyWithoutPair ==
  \A r \in RecordIds, s \in CancelReasons, in \in Convert :
    (HomeReady /\ Live(r) /\ Held(r) /\ Unassigned(recs[r])) =>
      LET w == Destroy(World(in), r, s)
      IN Ok(w) =>
           /\ w.recs[r].final_status = s
           /\ w.recs[r].prerendering_has_been_cancelled
           /\ w.tracker = tracker
           /\ w.cancel_log = cancel_log
           /\ w.pc = pc

\* A control-group record (started, no pair) has been destroyed with TIMED_OUT
\* and the tracker knows nothing.
C4_Witness ==
  /\ recs["orig"].creator_child_id # NoId
  /\ Unassigned(recs["orig"])
  /\ recs["orig"].prerendering_has_been_cancelled
  /\ recs["orig"].final_status = "TIMED_OUT"
  /\ tracker = <<>>
  /\ cancel_log[HomeThread] = NoRequest

\* C5: Destroy on a cancelled record, with any reason, changes nothing: not
\* the record (status, cancelled flag, aliases, notifications delivered), not
\* the tracker, the history log, the pending-delete list or the home thread's
\* position.
C5_DestroyIdempotent ==
  \A r \in RecordIds, s \in CancelReasons, in \in Convert :
    (Live(r) /\ recs[r].prerendering_has_been_cancelled) =>
      Destroy(World(in), r, s) = World(in)

\* A started record has been destroyed: one history entry, one pending
\* delete, one stop notification at the handle; further Destroys are enabled.
C5_Witness ==
  /\ recs["orig"].prerendering_has_been_cancelled
  /\ recs["orig"].prerendering_has_started
  /\ history = <<"orig">>
  /\ Len(pending_delete) = 1
  /\ Cardinality({i \in DOMAIN recs["orig"].delivered :
                    recs["orig"].delivered[i] = <<"stop", "handle">>}) = 1
  /\ fatal = NoFatal

\* C6: Matches(url, ns) is true exactly when url is in alias_urls_ and ns is
\* null or has the record's session storage namespace id.
C6_MatchesIff ==
  \A r \in RecordIds, u \in URLs, ns \in NamespaceArgs :
    Live(r) =>
      (Matches(World(NoInput), r, u, ns) <=>
         /\ Contains(recs[r].alias_urls, u)
         /\ ns.null \/ ns.id = recs[r].session_storage_namespace_id)

\* A started record with two aliases: the second alias matches with no
\* namespace and with the record's namespace, not with another namespace.
C6_Witness ==
  /\ Len(recs["orig"].alias_urls) = 2
  /\ recs["orig"].alias_urls[2] # recs["orig"].alias_urls[1]
  /\ recs["orig"].session_storage_namespace_id = 10
  /\ Matches(World(NoInput), "orig", recs["orig"].alias_urls[2],
             [null |-> TRUE, id |-> -1])
  /\ Matches(World(NoInput), "orig", recs["orig"].alias_urls[2],
             [null |-> FALSE, id |-> 10])
  /\ ~Matches(World(NoInput), "orig", recs["orig"].alias_urls[2],
              [null |-> FALSE, id |-> 11])
  /\ ~Matches(World(NoInput), "orig", U_FTP, [null |-> TRUE, id |-> -1])

\* C7: AddAliasURL with a URL that is neither http nor https returns false
\* and leaves alias_urls_ unchanged; on a record that is not cancelled, has no
\* pair and no final status it leaves the record cancelled with
\* UNSUPPORTED_SCHEME.
C7_AddAliasUnsupportedScheme ==
  \A r \in RecordIds, u \in URLs :
    \A in \in Inputs({u}) :
      (HomeReady /\ Live(r) /\ ~SchemeIs(u, kHttpScheme)
         /\ ~SchemeIs(u, kHttpsScheme)) =>
        LET a == AddAliasURL(World(in), r, u)
        IN /\ ~a.ret
           /\ a.w.recs[r].alias_urls = recs[r].alias_urls
           /\ (Held(r) /\ Unassigned(recs[r])
                 /\ recs[r].final_status = FINAL_STATUS_MAX) =>
                /\ Ok(a.w)
                /\ a.w.recs[r].prerendering_has_been_cancelled
                /\ a.w.recs[r].final_status = "UNSUPPORTED_SCHEME"

\* An initialized record without a pair was offered an ftp alias: it is
\* cancelled with UNSUPPORTED_SCHEME and still has its one alias.
C7_Witness ==
  /\ recs["orig"].alias_urls = <<U_HTTP>>
  /\ Unassigned(recs["orig"])
  /\ recs["orig"].prerendering_has_been_cancelled
  /\ recs["orig"].final_status = "UNSUPPORTED_SCHEME"

\* The checks of CheckURL in their order, and the reason each rejects with.
SchemeSupported(u) == SchemeIs(u, kHttpScheme) \/ SchemeIs(u, kHttpsScheme)
HttpsDisallowed(u) == SchemeIs(u, kHttpsScheme) /\ ~config.https_allowed
FirstFailingCheck(u) ==
  IF ~SchemeSupported(u) THEN "UNSUPPORTED_SCHEME"
  ELSE IF HttpsDisallowed(u) THEN "HTTPS"
  ELSE "RECENTLY_VISITED"

\* C8: CheckURL returns true exactly when the scheme is http or https, the
\* URL is not https while https is disallowed, and the manager does not report
\* it as recently visited; returning true it leaves everything untouched;
\* returning false it has requested the cancellation of the record with the
\* reason of the first failing check (scheme, https, recently visited).
C8_CheckURL ==
  \A r \in RecordIds, u \in URLs :
    \A in \in Inputs({u}) :
      (HomeReady /\ Live(r)) =>
        LET c == CheckURL(World(in), r, u)
        IN /\ c.ret <=> /\ SchemeSupported(u)
                        /\ ~HttpsDisallowed(u)
                        /\ u \notin in.recent
           /\ c.ret => c.w = World(in)
           /\ (~c.ret /\ Held(r) /\ Ok(c.w)) =>
                Requested(c.w, r, FirstFailingCheck(u))

\* An https alias was offered while https is disallowed: the record (no pair)
\* is cancelled with HTTPS and has kept its aliases.
C8_Witness ==
  /\ ~config.https_allowed
  /\ recs["orig"].final_status = "HTTPS"
  /\ recs["orig"].prerendering_has_been_cancelled
  /\ recs["orig"].alias_urls = <<U_HTTP>>

\* C9: a URL that passes the scheme and https checks and that the manager
\* reports as recently visited is rejected with RECENTLY_VISITED, except by a
\* record whose match_complete_status_ is replacement-pending, which accepts
\* it untouched; a URL failing the scheme or https check is rejected in both
\* cases, and one passing all checks is accepted in both.
C9_RecentlyVisitedSkippedWhenPending ==
  \A u \in URLs :
    \A in \in Inputs({u}) :
      (HomeReady /\ ~recs["clone"].exists) =>
        LET wp == NewContents(World(in), "orig")
            cd == CheckURL(World(in), "orig", u)
            cp == CheckURL(wp, "clone", u)
            passes == SchemeSupported(u) /\ ~HttpsDisallowed(u)
        IN /\ (passes /\ u \in in.recent) =>
                /\ ~cd.ret
                /\ (Held("orig") /\ Ok(cd.w)) =>
                     Requested(cd.w, "orig", "RECENTLY_VISITED")
                /\ cp.ret
                /\ cp.w = wp
           /\ ~passes => (~cd.ret /\ ~cp.ret)
           /\ (passes /\ u \notin in.recent) => (cd.ret /\ cp.ret)

\* With https disallowed, an http record was cancelled as recently visited
\* (so the manager reported its http URL) and, in the same Destroy, its
\* replacement was initialized with that URL and accepted it.
C9_Witness ==
  /\ ~config.https_allowed
  /\ recs["orig"].prerender_url = U_HTTP
  /\ recs["orig"].final_status = "RECENTLY_VISITED"
  /\ recs["clone"].exists
  /\ recs["clone"].match_complete_status = MATCH_COMPLETE_REPLACEMENT
  /\ recs["clone"].alias_urls = <<U_HTTP>>

\* C10 as stated: in every state every record's alias_urls_ is non-empty and
\* starts with prerender_url_.
C10_AliasNeverEmpty ==
  \A r \in RecordIds :
    Live(r) =>
      /\ recs[r].alias_urls # <<>>
      /\ Head(recs[r].alias_urls) = recs[r].prerender_url

\* C10, amended: alias_urls_ is empty from construction until Init; Init
\* leaves it empty (and the record cancelled) or makes it <<prerender_url_>>;
\* in every step alias_urls_ only grows by appending, so once it starts with
\* prerender_url_ it does so for good; a replacement record comes into being
\* with the original's aliases.
C10_AliasAppendOnly ==
  [][\A r \in RecordIds :
       /\ (Live(r) /\ ~recs[r].inited) => recs[r].alias_urls = <<>>
       /\ Live(r) =>
            /\ recs'[r].exists
            /\ recs'[r].prerender_url = recs[r].prerender_url
            /\ IsPrefix(recs[r].alias_urls, recs'[r].alias_urls)
       /\ (Live(r) /\ ~recs[r].inited /\ recs'[r].inited) =>
            \/ recs'[r].alias_urls = <<recs[r].prerender_url>>
            \/ /\ recs'[r].alias_urls = <<>>
               /\ recs'[r].prerendering_has_been_cancelled
       /\ (~Live(r) /\ recs'[r].exists) =>
            /\ recs'[r].alias_urls = recs["orig"].alias_urls
            /\ Head(recs'[r].alias_urls) = recs'[r].prerender_url]_vars

\* A record with its primary URL first and a second alias appended has been
\* cloned, and the clone has the same aliases.
C10_Witness ==
  /\ Len(recs["orig"].alias_urls) >= 2
  /\ Head(recs["orig"].alias_urls) = recs["orig"].prerender_url
  /\ recs["clone"].exists
  /\ recs["clone"].alias_urls = recs["orig"].alias_urls

\* C11: a main-frame commit while the hidden session's navigation history has
\* more than one entry requests the cancellation of the record with
\* NEW_NAVIGATION_ENTRY, whatever the aliases, the redirect chain of the commit
\* and the manager's answers are, and leaves alias_urls_ as it was.
C11_SecondEntryCancels ==
  \A c \in Chains(MaxRedirects) :
    \A in \in Inputs({c[i] : i \in DOMAIN c}) :
      (HomeReady /\ Live("orig") /\ recs["orig"].prerender_contents) =>
        \E w \in {DidNavigateMainFrame(World(in), "orig", 2, c)} :
          /\ w.recs["orig"].alias_urls = recs["orig"].alias_urls
          /\ (Held("orig") /\ Ok(w)) =>
               Requested(w, "orig", "NEW_NAVIGATION_ENTRY")

\* A started record with two aliases has been cancelled by a commit that found
\* a second history entry.
C11_Witness ==
  /\ recs["orig"].prerendering_has_been_cancelled
  /\ recs["orig"].final_status = "NEW_NAVIGATION_ENTRY"
  /\ Len(recs["orig"].alias_urls) = 2
  /\ cancel_log[HomeThread].reason = "NEW_NAVIGATION_ENTRY"

\* C12: when CreateMatchCompleteReplacement completes, the new record's first
\* alias is the original's first alias, its alias_urls_ is the original's
\* alias_urls_ as it was at the call (same elements, same order), its
\* match_complete_status_ is MATCH_COMPLETE_REPLACEMENT, and the original's
\* alias_urls_ is unchanged.
C12_ReplacementCopiesAliases ==
  \A in \in Inputs({recs["orig"].prerender_url}) :
    (HomeReady /\ Live("orig") /\ ~recs["clone"].exists
       /\ recs["orig"].alias_urls # <<>>) =>
      \E w \in {CreateMatchCompleteReplacement(World(in), "orig")} :
        Ok(w) =>
          /\ w.recs["clone"].exists
          /\ Head(w.recs["clone"].alias_urls) = Head(recs["orig"].alias_urls)
          /\ w.recs["clone"].alias_urls = recs["orig"].alias_urls
          /\ w.recs["clone"].match_complete_status = MATCH_COMPLETE_REPLACEMENT
          /\ w.recs["orig"].alias_urls = recs["orig"].alias_urls

\* A record with two different aliases was replaced: the new record has both,
\* in the same order, is a replacement, and the handle was told.
C12_Witness ==
  /\ Len(recs["orig"].alias_urls) = 2
  /\ recs["orig"].alias_urls[1] # recs["orig"].alias_urls[2]
  /\ recs["clone"].exists
  /\ recs["clone"].match_complete_status = MATCH_COMPLETE_REPLACEMENT
  /\ recs["clone"].alias_urls = recs["orig"].alias_urls
  /\ Contains(recs["orig"].delivered, <<"replacement", "handle">>)

\* C13: CommitHistory tells the tab's history of exactly the entries DidNavigate
\* accumulated, each once and in the order they were accumulated (the tab's
\* history grows by add_page_vector_, whether that holds 0, 1 or more
\* entries), and no step but DidNavigate changes add_page_vector_, which
\* DidNavigate extends by its argument at the end.
C13_CommitHistoryReplays ==
  [][/\ CommitHistory(add_page_vector, tab_history, 0) =
          tab_history \o add_page_vector
     /\ tab_history' # tab_history =>
          /\ tab_history' = tab_history \o add_page_vector
          /\ add_page_vector' = add_page_vector
     /\ add_page_vector' # add_page_vector =>
          /\ \E a \in AddPageArgs :
               add_page_vector' = Append(add_page_vector, a)
          /\ tab_history' = tab_history]_vars

\* Three entries, not all the same, were accumulated and replayed once: the
\* tab's history is those three in that order and they are still accumulated.
C13_Witness ==
  /\ Len(add_page_vector) = 3
  /\ add_page_vector[1] # add_page_vector[2]
  /\ tab_history = add_page_vector

\* One notification of the given kind delivered to each observer of list, in
\* the order of the list.
Round(kind, list) == [i \in 1..Len(list) |-> <<kind, list[i]>>]

\* What the step has added to the record's log of delivered notifications.
NewlyDelivered(r) ==
  SubSeq(recs'[r].delivered, Len(recs[r].delivered) + 1,
         Len(recs'[r].delivered))

StopDelivered(r) == \E o \in Observers : Contains(recs[r].delivered, <<"stop", o>>)

\* C14: observers are registered by appending; every notification goes to the
\* registered observers in registration order; the step that delivers stop
\* leaves the observer list empty; once stop has been delivered the list stays
\* empty and no later step (stop-loading, replacement-created, Destroy,
\* PrepareForUse, an attempted AddObserver) delivers anything, so no observer
\* receives stop twice.
C14_ObserversInOrderUntilStop ==
  [][\A r \in RecordIds :
       Live(r) =>
         /\ IsPrefix(recs[r].delivered, recs'[r].delivered)
         /\ \/ recs'[r].observer_list = recs[r].observer_list
            \/ recs'[r].observer_list = <<>>
            \/ \E o \in Observers :
                 recs'[r].observer_list = Append(recs[r].observer_list, o)
         /\ \E new \in {NewlyDelivered(r)}, l \in {recs[r].observer_list} :
              /\ \/ new = <<>>
                 \/ new = Round("start", recs'[r].observer_list)
                 \/ new = Round("stop_loading", l)
                 \/ new = Round("replacement", l)
                 \/ new = Round("stop", l)
                 \/ new = Round("replacement", l) \o Round("stop", l)
              /\ (\E i \in DOMAIN new : new[i][1] = "stop") =>
                   recs'[r].observer_list = <<>>
              /\ StopDelivered(r) =>
                   (new = <<>> /\ l = <<>> /\ recs'[r].observer_list = <<>>)
         /\ \A o \in Observers :
              Cardinality({i \in DOMAIN recs'[r].delivered :
                             recs'[r].delivered[i] = <<"stop", o>>}) <= 1]_vars

\* The tracker and then a handle were registered, stop went to them in that
\* order, and the end of a load reported afterwards reached neither.
C14_Witness ==
  /\ recs["orig"].delivered =
       <<(<<"start", "tracker">>), <<"stop", "tracker">>, <<"stop", "handle">>>>
  /\ recs["orig"].observer_list = <<>>
  /\ recs["orig"].has_stopped_loading

\* The step completes the first Destroy of record r.
Cancels(r) ==
  /\ Live(r)
  /\ ~recs[r].prerendering_has_been_cancelled
  /\ recs'[r].prerendering_has_been_cancelled

\* The step has made the replacement of the original record.
Replaces == ~recs["clone"].exists /\ recs'["clone"].exists

\* The step ends with one stop notification to each observer registered
\* before it, in order.
EndsWithStop(r) ==
  \E new \in {NewlyDelivered(r)}, stop \in {Round("stop", recs[r].observer_list)} :
    /\ Len(new) >= Len(stop)
    /\ SubSeq(new, Len(new) - Len(stop) + 1, Len(new)) = stop

NoStop(r) ==
  \A i \in DOMAIN NewlyDelivered(r) : NewlyDelivered(r)[i][1] # "stop"

StartedAsControl(rec) ==
  rec.exists /\ rec.creator_child_id # -1 /\ ~rec.prerendering_has_started

NoHiddenSession(rec) ==
  /\ ~rec.load_start_time_null
  /\ ~rec.prerender_contents
  /\ Unassigned(rec)
  /\ rec.child_id = NoId /\ rec.route_id = NoId
  /\ ~Contains(rec.observer_list, "tracker")
  /\ \A o \in Observers : ~Contains(rec.delivered, <<"start", o>>)
  /\ ~rec.navigation_issued

\* C16: StartPrerendering in the control group, or with the local-predictor
\* always-control mode, records the start time and returns with no hidden
\* session, no pair, the tracker not registered, no start notification and no
\* navigation; and a record whose Start returned that way is like that in
\* every later state (in the control group no record ever starts).
C16_ControlStartAllocatesNothing ==
  /\ \A r \in RecordIds :
       /\ StartedAsControl(recs[r]) => NoHiddenSession(recs[r])
       /\ (Live(r) /\ config.control_group) =>
            ~recs[r].prerendering_has_started
  /\ \A c \in CreatorIds, ns \in StartNamespaceIds, p \in ChildIds \X RouteIds,
        a \in BOOLEAN :
       (HomeReady /\ Live("orig") /\ (config.control_group \/ a)) =>
         \E w \in {StartPrerendering(World(NoInput), "orig", c, FALSE, ns, p,
                                     a)} :
           Ok(w) => /\ StartedAsControl(w.recs["orig"])
                    /\ NoHiddenSession(w.recs["orig"])
                    /\ w.tracker = tracker

\* Outside the control group a record was started in always-control mode, a
\* handle attached to it, and it was cancelled later: still nothing allocated.
C16_Witness ==
  /\ ~config.control_group
  /\ StartedAsControl(recs["orig"])
  /\ recs["orig"].observer_list = <<"handle">>
  /\ recs["orig"].prerendering_has_been_cancelled
  /\ NoHiddenSession(recs["orig"])

\* Pairs a second Start could come with, beside the one the model's hidden
\* session has.
OtherPairs == {<<2, 6>>}

\* C17: child_id_ and route_id_ are assigned together, in the one step in
\* which prerendering_has_started_ becomes true, and keep their values in
\* every later step, cancellation included; StartPrerendering on a record on
\* which it has run before (having allocated a session or having returned for
\* the control group) is fatal, with whatever arguments, and assigns nothing.
C17_PairAssignedOnce ==
  [][\A r \in RecordIds :
       Live(r) =>
         /\ Unassigned(recs[r]) <=> ~recs[r].prerendering_has_started
         /\ Unassigned(recs[r]) <=> Pair(recs[r]) = <<NoId, NoId>>
         /\ ~Unassigned(recs[r]) => Pair(recs'[r]) = Pair(recs[r])
         /\ Pair(recs'[r]) # Pair(recs[r]) <=>
              (~recs[r].prerendering_has_started
                 /\ recs'[r].prerendering_has_started)
         /\ recs[r].creator_child_id # -1 =>
              \A c \in CreatorIds, e \in BOOLEAN, ns \in NamespaceIds,
                 p \in (ChildIds \X RouteIds) \cup OtherPairs, a \in BOOLEAN :
                ~Ok(StartPrerendering(World(NoInput), r, c, e, ns, p, a))]_vars

\* A record that has its pair was started a second time: the process aborted
\* and the pair is the one the first Start assigned.
C17_Witness ==
  /\ fatal = "StartPrerendering: DCHECK(!prerendering_has_started_)"
  /\ Pair(recs["orig"]) = <<1, 5>>
  /\ recs["orig"].prerendering_has_started

\* The events of C18 and the reason the claim gives for each.
CancellingEvents ==
  [OpenURLFromTab |-> "OPEN_URL",
   CanDownload |-> "DOWNLOAD",
   JSOutOfMemory |-> "JS_OUT_OF_MEMORY",
   ShouldSuppressDialogs |-> "JAVASCRIPT_ALERT",
   RegisterProtocolHandler |-> "REGISTER_PROTOCOL_HANDLER",
   RenderProcessGone |-> "RENDERER_CRASHED",
   OnCancelPrerenderForPrinting |-> "WINDOW_PRINT",
   NOTIFICATION_PROFILE_DESTROYED |-> "PROFILE_DESTROYED",
   NOTIFICATION_APP_TERMINATING |-> "APP_TERMINATING"]

\* The handler of event e run on record r, through both halves of Destroy
\* with no other thread in between.
HandleEvent(e, w, r) ==
  \E h \in {CASE e = "OpenURLFromTab" -> OpenURLFromTab(w, r)
               [] e = "CanDownload" -> CanDownload(w, r)
               [] e = "JSOutOfMemory" -> JSOutOfMemory(w, r)
               [] e = "ShouldSuppressDialogs" -> ShouldSuppressDialogs(w, r)
               [] e = "RegisterProtocolHandler" -> RegisterProtocolHandler(w, r)
               [] e = "RenderProcessGone" -> RenderProcessGone(w, r)
               [] e = "OnCancelPrerenderForPrinting" ->
                    OnCancelPrerenderForPrinting(w, r)
               [] OTHER -> Observe(w, r, e)} :
    /\ Ok(h) /\ InDestroy(h)
    /\ h.tracker[Pair(h.recs[r])] = CancellingEvents[e]
    /\ \E d \in {DestroyResume(h)} :
         /\ Ok(d) /\ ~InDestroy(d)
         /\ d.recs[r].prerendering_has_been_cancelled
         /\ d.recs[r].final_status = CancellingEvents[e]
         /\ d.tracker[Pair(d.recs[r])] = CancellingEvents[e]
         /\ d.history = Append(w.history, r)

\* C18: on a started record that is not cancelled, has no final status and
\* whose pair has no status in the tracker, each of the nine events (delegate
\* calls, process gone, cancel-for-printing, the two notifications) cancels
\* the record with its own reason, whether or not the manager replaces the
\* record, and the nine reasons are pairwise different.
C18_EventsCancelWithOwnReason ==
  /\ Cardinality({CancellingEvents[e] : e \in DOMAIN CancellingEvents}) = 9
  /\ (/\ HomeReady /\ Live("orig") /\ Held("orig")
      /\ recs["orig"].prerendering_has_started
      /\ recs["orig"].final_status = FINAL_STATUS_MAX
      /\ Pair(recs["orig"]) \in DOMAIN tracker
      /\ tracker[Pair(recs["orig"])] = FINAL_STATUS_MAX) =>
       \A e \in DOMAIN CancellingEvents, in \in Convert :
         HandleEvent(e, World(in), "orig")

\* A started record was cancelled by the cancel-for-printing message and the
\* tracker holds that reason.
C18_Witness ==
  /\ recs["orig"].prerendering_has_been_cancelled
  /\ recs["orig"].final_status = "WINDOW_PRINT"
  /\ cancel_log[HomeThread].reason = "WINDOW_PRINT"
  /\ cancel_log[HomeThread].got = "WINDOW_PRINT"
  /\ tracker[Pair(recs["orig"])] = "WINDOW_PRINT"

\* A started record that nothing has cancelled or finalized yet.
Prerendering(r) ==
  /\ HomeReady /\ Live(r) /\ Held(r)
  /\ recs[r].prerendering_has_started
  /\ recs[r].prerender_contents
  /\ recs[r].final_status = FINAL_STATUS_MAX
  /\ Pair(recs[r]) \in DOMAIN tracker
  /\ tracker[Pair(recs[r])] = FINAL_STATUS_MAX

\* C19 as stated: a go-to-entry-offset request in the hidden session of a
\* started record that is not cancelled cancels the record, with a reason
\* that no other event uses.
C19_GoToEntryOffsetCancels ==
  Prerendering("orig") =>
    \E w \in {OnGoToEntryOffset(World(NoInput), "orig")} :
      \E reason \in CancelReasons :
        /\ Requested(w, "orig", reason)
        /\ \A e \in DOMAIN CancellingEvents : CancellingEvents[e] # reason

\* C19, amended: a go-to-entry-offset request is refused and changes nothing:
\* the record is not cancelled by it, its final status, the tracker, the
\* history log and the pending-delete list are as before.
C19_GoToEntryOffsetRefused ==
  \A r \in Hosts :
    (HomeReady /\ Live(r) /\ recs[r].prerender_contents) =>
      \E w \in {OnGoToEntryOffset(World(NoInput), r)} :
        /\ Ok(w) /\ ~InDestroy(w)
        /\ w.recs = recs
        /\ w.tracker = tracker
        /\ w.cancel_log = cancel_log
        /\ w.history = history
        /\ w.pending_delete = pending_delete

\* A started record with a handle attached, in whose hidden session the
\* request can be made, and which the request leaves prerendering.
C19_Witness ==
  /\ Prerendering("orig")
  /\ recs["orig"].observer_list = <<"tracker", "handle">>
  /\ OnGoToEntryOffset(World(NoInput), "orig").recs["orig"].final_status =
       FINAL_STATUS_MAX

\* C20 as stated: PrepareForUse delivers the stop-loading notification, and
\* not the stop notification, to the registered observers.
C20_PrepareForUseStopLoading ==
  \A r \in Hosts :
    (HomeReady /\ Live(r)) =>
      \E w \in {PrepareForUse(World(NoInput), r)} :
        Ok(w) =>
          w.recs[r].delivered =
            recs[r].delivered \o Round("stop_loading", recs[r].observer_list)

\* C20, amended: PrepareForUse delivers the stop notification to the
\* registered observers, in order, and empties the observer list; it delivers
\* no stop-loading notification and leaves has_stopped_loading_ alone; on a
\* record without final status it fails the DCHECK of NotifyPrerenderStop.
C20_PrepareForUseStops ==
  \A r \in Hosts :
    (HomeReady /\ Live(r)) =>
      \E w \in {PrepareForUse(World(NoInput), r)} :
        IF recs[r].final_status = FINAL_STATUS_MAX
        THEN w.fatal =
               "NotifyPrerenderStop: DCHECK_NE(FINAL_STATUS_MAX, final_status_)"
        ELSE /\ Ok(w)
             /\ w.recs[r].delivered =
                  recs[r].delivered \o Round("stop", recs[r].observer_list)
             /\ w.recs[r].observer_list = <<>>
             /\ w.recs[r].has_stopped_loading = recs[r].has_stopped_loading
             /\ w.recs[r].final_status = recs[r].final_status

\* A started record with a handle was marked used and prepared for use: the
\* tracker and the handle were told of stop, after an earlier stop-loading.
C20_Witness ==
  /\ recs["orig"].final_status = FINAL_STATUS_USED
  /\ ~recs["orig"].prerendering_has_been_cancelled
  /\ recs["orig"].observer_list = <<>>
  /\ recs["orig"].delivered =
       <<(<<"start", "tracker">>), <<"stop_loading", "tracker">>,
         <<"stop_loading", "handle">>, <<"stop", "tracker">>,
         <<"stop", "handle">>>>

\* What the step has added to the log of SetIsPrerendering messages.
NewFrameMsgs ==
  SubSeq(frame_msgs', Len(frame_msgs) + 1, Len(frame_msgs'))

\* The sequence tells each host of the set "not prerendering" exactly once
\* and holds nothing else.
TellsExactly(msgs, hosts) ==
  /\ Len(msgs) = Cardinality(hosts)
  /\ \A h \in hosts : Contains(msgs, <<h, FALSE>>)

\* The requests as the manager gets them from record r.
Handed(pending, rec) ==
  [i \in 1..Len(pending) |->
     [info |-> pending[i], process_id |-> rec.child_id,
      has_namespace |-> rec.prerender_contents]]

\* C21: RenderFrameCreated adds the host to render_frame_hosts_ and tells it
\* "prerendering"; RenderFrameDeleted removes it, and a PrepareForUse after
\* that sends it nothing; PrepareForUse tells "not prerendering" to exactly the
\* hosts in render_frame_hosts_, once each, empties the set, hands each
\* request of pending_prerenders_ to the manager once, in order, and leaves
\* pending_prerenders_ empty; no other step touches the set, the messages or
\* the requests.
C21_FrameHostsAndPendingPrerenders ==
  [][/\ \A h \in FrameHosts :
          /\ \E c \in {RenderFrameCreated(World(NoInput), h)} :
               /\ c.render_frame_hosts = render_frame_hosts \cup {h}
               /\ c.frame_msgs = Append(frame_msgs, <<h, TRUE>>)
          /\ \E d \in {RenderFrameDeleted(World(NoInput), h)} :
               /\ d.render_frame_hosts = render_frame_hosts \ {h}
               /\ d.frame_msgs = frame_msgs
               /\ \E u \in {PrepareForUse(d, "orig")} :
                    /\ ~Contains(SubSeq(u.frame_msgs, Len(frame_msgs) + 1,
                                        Len(u.frame_msgs)), <<h, FALSE>>)
                    /\ Ok(u) =>
                         TellsExactly(SubSeq(u.frame_msgs, Len(frame_msgs) + 1,
                                             Len(u.frame_msgs)),
                                      render_frame_hosts \ {h})
     /\ IsPrefix(frame_msgs, frame_msgs')
     /\ IsPrefix(started_prerenders, started_prerenders')
     /\ \/ /\ NewFrameMsgs = <<>>
           /\ \/ render_frame_hosts' = render_frame_hosts
              \/ \E h \in FrameHosts :
                   render_frame_hosts' = render_frame_hosts \ {h}
              \/ render_frame_hosts' = {} /\ render_frame_hosts = {}
        \/ \E h \in FrameHosts :
             /\ NewFrameMsgs = <<(<<h, TRUE>>)>>
             /\ render_frame_hosts' = render_frame_hosts \cup {h}
        \/ /\ TellsExactly(NewFrameMsgs, render_frame_hosts)
           /\ render_frame_hosts' = {}
     /\ \/ /\ pending_prerenders' = pending_prerenders
           /\ started_prerenders' = started_prerenders
        \/ /\ \E i \in PendingInfos :
                pending_prerenders' = Append(pending_prerenders, i)
           /\ started_prerenders' = started_prerenders
        \/ /\ pending_prerenders' = <<>>
           /\ started_prerenders' =
                started_prerenders \o Handed(pending_prerenders, recs["orig"])
     /\ (recs'["orig"].delivered # recs["orig"].delivered
           /\ recs["orig"].prerendering_has_started) =>
          /\ render_frame_hosts' = {}
          /\ pending_prerenders' = <<>>
          /\ TellsExactly(NewFrameMsgs, render_frame_hosts)]_vars

\* Two frame hosts were created and the first deleted; PrepareForUse then told
\* only the second "not prerendering" and handed the two pending requests to
\* the manager in their order.
C21_Witness ==
  /\ frame_msgs = <<(<<1, TRUE>>), <<2, TRUE>>, <<2, FALSE>>>>
  /\ render_frame_hosts = {}
  /\ pending_prerenders = <<>>
  /\ Len(started_prerenders) = 2
  /\ started_prerenders[1].info = "request1"
  /\ started_prerenders[2].info = "request2"
  /\ recs["orig"].final_status = FINAL_STATUS_USED

\* The first position of the chain whose URL CheckURL rejects, given what the
\* manager reports as recently visited; one past the end if there is none.
FirstRejected(c, recent) ==
  LET bad == {i \in DOMAIN c : ~(/\ SchemeSupported(c[i])
                                 /\ ~HttpsDisallowed(c[i])
                                 /\ c[i] \notin recent)}
  IN IF bad = {} THEN Len(c) + 1
     ELSE CHOOSE i \in bad : \A j \in bad : i <= j

\* C22: a main-frame commit with at most one history entry appends the URLs
\* of its redirect chain to alias_urls_ in chain order up to, and not
\* including, the first URL CheckURL rejects; nothing after that URL is
\* appended, and the cancellation of the record is requested with the reason
\* of the check that rejected it; with no rejected URL nothing but
\* alias_urls_ changes.
C22_RedirectChainUntilRejected ==
  \A c \in Chains(MaxRedirects), n \in 0..1 :
    \A in \in Recent({c[i] : i \in DOMAIN c}) :
      (HomeReady /\ Live("orig") /\ recs["orig"].prerender_contents) =>
        \E w \in {DidNavigateMainFrame(World(in), "orig", n, c)},
           k \in {FirstRejected(c, in.recent)} :
          /\ w.recs["orig"].alias_urls =
               recs["orig"].alias_urls \o SubSeq(c, 1, k - 1)
          /\ (k <= Len(c) /\ Held("orig") /\ Ok(w)) =>
               Requested(w, "orig", FirstFailingCheck(c[k]))
          /\ k > Len(c) =>
               w = [World(in) EXCEPT !.recs["orig"].alias_urls =
                                       @ \o c]

\* With https allowed, a started record took the https URL of a commit's
\* chain as its second alias and was cancelled for a later ftp URL.
C22_Witness ==
  /\ config.https_allowed
  /\ recs["orig"].prerendering_has_started
  /\ recs["orig"].alias_urls = <<U_HTTP, U_HTTPS>>
  /\ recs["orig"].prerendering_has_been_cancelled
  /\ recs["orig"].final_status = "UNSUPPORTED_SCHEME"
  /\ cancel_log[HomeThread].reason = "UNSUPPORTED_SCHEME"

\* CheckURL accepts u for a record that is not replacement-pending.
Eligible(u, recent) ==
  SchemeSupported(u) /\ ~HttpsDisallowed(u) /\ u \notin recent

\* C23: DidStartProvisionalLoadForFrame for the main frame with a URL CheckURL
\* accepts sets has_stopped_loading_ and has_finished_loading_ to false and
\* changes nothing else; with a URL CheckURL rejects it requests the
\* cancellation of the record and leaves both flags as they were; for another
\* frame it changes nothing, whatever the URL is.
C23_ProvisionalLoadStart ==
  \A u \in URLs, m \in BOOLEAN :
    \A in \in Recent({u}) :
      (HomeReady /\ Live("orig") /\ recs["orig"].prerender_contents) =>
        \E w \in {DidStartProvisionalLoadForFrame(World(in), "orig", m, u)} :
          /\ ~m => w = World(in)
          /\ (m /\ Eligible(u, in.recent)) =>
               w = [World(in) EXCEPT
                      !.recs["orig"].has_stopped_loading = FALSE,
                      !.recs["orig"].has_finished_loading = FALSE]
          /\ (m /\ ~Eligible(u, in.recent)) =>
               /\ w.recs["orig"].has_stopped_loading =
                    recs["orig"].has_stopped_loading
               /\ w.recs["orig"].has_finished_loading =
                    recs["orig"].has_finished_loading
               /\ w.recs["orig"].alias_urls = recs["orig"].alias_urls
               /\ (Held("orig") /\ Ok(w)) =>
                    Requested(w, "orig", FirstFailingCheck(u))

\* The observers were told that loading stopped, and a later main-frame
\* provisional load has reset has_stopped_loading_; the record prerenders on.
C23_Witness ==
  /\ Contains(recs["orig"].delivered, <<"stop_loading", "tracker">>)
  /\ ~recs["orig"].has_stopped_loading
  /\ recs["orig"].final_status = FINAL_STATUS_MAX
  /\ ~recs["orig"].prerendering_has_been_cancelled
  /\ pc = Idle

HandleAvailable(r, process) == recs[r].prerender_contents /\ process = "handle"

\* C25 as stated: on a record that is not cancelled and whose process handle
\* is available, DestroyWhenUsingTooManyResources asks for cancellation with
\* MEMORY_LIMIT_EXCEEDED exactly when a sample is obtained and its private
\* bytes are strictly above max_bytes; when the handle is unavailable (no
\* hidden session yet, or none any more) it changes nothing at all.
C25_MemoryGuard ==
  \A r \in Hosts, process \in ProcessStates, sample \in Samples :
    (HomeReady /\ Live(r)) =>
      \E w \in {DestroyWhenUsingTooManyResources(World(NoInput), r, process,
                                                 sample)} :
        /\ (Held(r) /\ HandleAvailable(r, process)) =>
             (Requested(w, r, "MEMORY_LIMIT_EXCEEDED") <=>
                (sample.ok /\ sample.private_bytes > max_bytes))
        /\ ~HandleAvailable(r, process) => w = World(NoInput)

\* The record was marked used and its hidden session was handed off, and the
\* memory guard, run afterwards, has asked the tracker to cancel it.
C25_Witness ==
  /\ recs["orig"].final_status = FINAL_STATUS_USED
  /\ ~recs["orig"].prerender_contents
  /\ recs["orig"].process_metrics
  /\ pc.at = "Destroy" /\ pc.rec = "orig"
  /\ pc.final_status = "MEMORY_LIMIT_EXCEEDED"
  /\ tracker[Pair(recs["orig"])] = "MEMORY_LIMIT_EXCEEDED"

\* The positions of the standard (FAVICON-type) entries of an update.
Standard(urls) == {i \in DOMAIN urls : urls[i].icon_type = FAVICON}

\* The first standard entry of an update that has one.
FirstStandard(urls) ==
  urls[CHOOSE i \in Standard(urls) : \A j \in Standard(urls) : i <= j]

\* C26 as stated: the first standard favicon URL is recorded; once one is
\* recorded no favicon update changes it, and an update with no standard
\* favicon never changes it.
C26_FirstFaviconKept ==
  \A r \in Hosts, urls \in FaviconUpdates :
    (HomeReady /\ Live(r) /\ recs[r].prerender_contents) =>
      \E w \in {DidUpdateFaviconURL(World(NoInput), r, urls)} :
        IF recs[r].icon_url = "none" /\ Standard(urls) # {}
        THEN w.recs[r].icon_url = FirstStandard(urls).icon_url
        ELSE w.recs[r].icon_url = recs[r].icon_url

\* C26, amended: every favicon update that contains a standard favicon sets
\* icon_url_ to the URL of the first standard entry of that update, whatever
\* was recorded before; an update with no standard favicon changes nothing;
\* nothing but icon_url_ is ever changed.
C26_FirstFaviconOfEachUpdate ==
  \A r \in Hosts, urls \in FaviconUpdates :
    (HomeReady /\ Live(r) /\ recs[r].prerender_contents) =>
      \E w \in {DidUpdateFaviconURL(World(NoInput), r, urls)} :
        IF Standard(urls) # {}
        THEN w = [World(NoInput) EXCEPT
                    !.recs[r].icon_url = FirstStandard(urls).icon_url]
        ELSE w = World(NoInput)

\* A favicon is recorded, and an update whose first standard entry is another
\* one (followed by a second standard entry) replaces it.
C26_Witness ==
  /\ HomeReady /\ recs["orig"].prerender_contents
  /\ recs["orig"].icon_url = "icon1"
  /\ DidUpdateFaviconURL(
       World(NoInput), "orig",
       <<[icon_type |-> FAVICON, icon_url |-> "icon2"],
         [icon_type |-> FAVICON, icon_url |-> "icon1"]>>).recs["orig"].icon_url
       = "icon2"

\* What the record r keeps for good once it is cancelled.
StaysCancelled(old, new) ==
  /\ new.prerendering_has_been_cancelled
  /\ new.final_status = old.final_status
  /\ new.final_status # FINAL_STATUS_USED

\* The cancelled record r, after each navigation event its hidden session can
\* still deliver, is cancelled with the same final status, and its aliases
\* are Aliases(n, c, in): n the entry count, c the redirect chain of a commit
\* (<<>> for the other events), in the manager's answers.
CancelledAfterNavigation(r, Aliases(_, _, _)) ==
  (HomeReady /\ Live(r) /\ recs[r].prerendering_has_been_cancelled
     /\ recs[r].prerender_contents) =>
    /\ \A m \in BOOLEAN, u \in URLs : \A in \in Recent({u}) :
         /\ \E w \in {DidStartProvisionalLoadForFrame(World(in), r, m, u)} :
              /\ Ok(w) /\ ~InDestroy(w)
              /\ StaysCancelled(recs[r], w.recs[r])
              /\ w.recs[r].alias_urls = Aliases(1, <<>>, in)
         /\ \E w \in {DidGetRedirectForResourceRequest(World(in), r, m, u)} :
              /\ Ok(w) /\ ~InDestroy(w)
              /\ StaysCancelled(recs[r], w.recs[r])
              /\ w.recs[r].alias_urls = Aliases(1, <<>>, in)
    /\ \A n \in 1..2, c \in Chains(MaxRedirects) :
         \A in \in Recent({c[i] : i \in DOMAIN c}) :
           \E w \in {DidNavigateMainFrame(World(in), r, n, c)} :
             /\ Ok(w) /\ ~InDestroy(w)
             /\ StaysCancelled(recs[r], w.recs[r])
             /\ w.recs[r].alias_urls = Aliases(n, c, in)

\* C27 as stated: a cancelled record stays cancelled with the final status it
\* has, which is not USED, in every step, and no navigation event
\* (provisional-load start, main-frame commit, resource redirect) changes
\* its aliases.
C27_CancelledAliasesFrozen ==
  /\ [](\A r \in Hosts :
          CancelledAfterNavigation(r, LAMBDA n, c, in : recs[r].alias_urls))
  /\ [][\A r \in RecordIds :
          (Live(r) /\ recs[r].prerendering_has_been_cancelled) =>
            StaysCancelled(recs[r], recs'[r])]_vars

\* C27, amended: a cancelled record stays cancelled with the final status it
\* has, which is not USED, in every step; its aliases only grow; a
\* provisional-load start and a resource redirect leave them as they are,
\* and a main-frame commit with at most one history entry still appends the
\* URLs of its redirect chain up to the first one CheckURL rejects.
C27_CancelledStaysCancelled ==
  /\ [](\A r \in Hosts :
          CancelledAfterNavigation(
            r, LAMBDA n, c, in :
                 IF n > 1 THEN recs[r].alias_urls
                 ELSE recs[r].alias_urls
                        \o SubSeq(c, 1, FirstRejected(c, in.recent) - 1)))
  /\ [][\A r \in RecordIds :
          (Live(r) /\ recs[r].prerendering_has_been_cancelled) =>
            /\ StaysCancelled(recs[r], recs'[r])
            /\ IsPrefix(recs[r].alias_urls, recs'[r].alias_urls)]_vars

\* A started record was cancelled by the manager and has one alias; a
\* main-frame commit of its hidden session, redirected through an http URL,
\* gives it a second alias and leaves it cancelled.
C27_Witness ==
  /\ HomeReady /\ recs["orig"].prerender_contents
  /\ recs["orig"].prerendering_has_been_cancelled
  /\ recs["orig"].final_status = "CANCELLED"
  /\ Contains(history, "orig")
  /\ Len(recs["orig"].alias_urls) = 1
  /\ \E w \in {DidNavigateMainFrame(World(NoInput), "orig", 1, <<U_HTTP>>)} :
       /\ w.recs["orig"].alias_urls = recs["orig"].alias_urls \o <<U_HTTP>>
       /\ StaysCancelled(recs["orig"], w.recs["orig"])

\* The record is known to the tracker: it has a pair, the tracker was told of
\* its start, and the tracker has an entry for the pair.
KnownToTracker(w, r) ==
  /\ ~Unassigned(w.recs[r])
  /\ Contains(w.recs[r].delivered, <<"start", "tracker">>)
  /\ Pair(w.recs[r]) \in DOMAIN w.tracker

\* C28: a StartPrerendering that allocates a hidden session returns with the
\* pair assigned, the tracker registered as first observer and told of the
\* start, and only then the navigation issued; so whenever a hidden session
\* exists or a navigation was issued the record is known to the tracker, a
\* Destroy of a record that is not cancelled passes TryCancel, and Destroy
\* never fails CHECK(is_cancelled) or reaches NOTREACHED().
C28_KnownToTrackerBeforeLoad ==
  /\ fatal \notin {"Destroy: CHECK(is_cancelled)", "Destroy: NOTREACHED()"}
  /\ \A r \in RecordIds :
       (Live(r) /\ (recs[r].navigation_issued \/ recs[r].prerender_contents)) =>
         /\ recs[r].prerender_contents => recs[r].navigation_issued
         /\ KnownToTracker(World(NoInput), r)
         /\ (HomeReady /\ Held(r)) =>
              \A reason \in CancelReasons :
                \E d \in {Destroy(World(NoInput), r, reason)} :
                  Ok(d) /\ InDestroy(d) /\ Requested(d, r, reason)
  /\ \A r \in Hosts, p \in ChildIds \X RouteIds, a \in BOOLEAN :
       (HomeReady /\ Live(r) /\ Held(r)) =>
         \E w \in {StartPrerendering(World(NoInput), r, 3, FALSE, 10, p, a)} :
           (Ok(w) /\ w.recs[r].prerender_contents) =>
             /\ Pair(w.recs[r]) = p
             /\ w.recs[r].observer_list = <<"tracker">>
             /\ w.recs[r].delivered =
                  recs[r].delivered \o <<(<<"start", "tracker">>)>>
             /\ KnownToTracker(w, r)
             /\ w.recs[r].navigation_issued

\* A started record whose load was issued with the tracker knowing it was
\* cancelled by an event of the load, and TryCancel took the event's reason.
C28_Witness ==
  /\ recs["orig"].navigation_issued
  /\ KnownToTracker(World(NoInput), "orig")
  /\ recs["orig"].prerendering_has_been_cancelled
  /\ recs["orig"].final_status = "UNSUPPORTED_SCHEME"
  /\ cancel_log[HomeThread] =
       [pair |-> <<1, 5>>, reason |-> "UNSUPPORTED_SCHEME",
        got |-> "UNSUPPORTED_SCHEME"]

\* What the step has appended to `seen` about record r.
NewlySeen(r) ==
  SelectSeq(SubSeq(seen', Len(seen) + 1, Len(seen')), LAMBDA e : e.rec = r)

\* The step cancels r, be it a record that existed or one the step has made.
FirstDestroy(r) ==
  /\ ~recs[r].prerendering_has_been_cancelled
  /\ recs'[r].prerendering_has_been_cancelled

\* C29: the step that cancels a record sets its final status (unset before)
\* and the cancelled flag, adds it once to the history and once to the
\* pending-delete list with that final status; the manager is called for the
\* history first and for the pending deletion second, the observers are
\* notified (replacement, stop) only after both, and each of them sees the
\* record cancelled and with the final status the step leaves.  Nobody is
\* ever called by Destroy or notified of a stop while final_status_ is unset.
C29_DestroyBookkeepingOrder ==
  /\ [](\A i \in DOMAIN seen : seen[i].final_status # FINAL_STATUS_MAX)
  /\ [][\A r \in RecordIds :
          FirstDestroy(r) =>
            \E fs \in {recs'[r].final_status}, told \in {NewlyDelivered(r)} :
              /\ recs[r].final_status = FINAL_STATUS_MAX
              /\ fs \in CancelReasons
              /\ SelectSeq(history', LAMBDA x : x = r) =
                   Append(SelectSeq(history, LAMBDA x : x = r), r)
              /\ SelectSeq(pending_delete', LAMBDA x : x[1] = r) =
                   Append(SelectSeq(pending_delete, LAMBDA x : x[1] = r),
                          <<r, fs>>)
              /\ NewlySeen(r) =
                   <<[who |-> "manager", call |-> "AddToHistory", rec |-> r,
                      final_status |-> fs, cancelled |-> TRUE],
                     [who |-> "manager", call |-> "MoveEntryToPendingDelete",
                      rec |-> r, final_status |-> fs, cancelled |-> TRUE]>>
                   \o [i \in 1..Len(told) |->
                         [who |-> told[i][2], call |-> told[i][1], rec |-> r,
                          final_status |-> fs, cancelled |-> TRUE]]
              /\ \A i \in DOMAIN told : told[i][1] \in {"replacement", "stop"}
              /\ \A i, j \in DOMAIN told :
                   (told[i][1] = "stop" /\ told[j][1] = "replacement") => j < i
         ]_vars

\* A started record with a handle attached was cancelled and replaced: the
\* manager saw it for the history and for the pending deletion, then the
\* tracker and the handle heard of the replacement and of the stop.
C29_Witness ==
  /\ recs["orig"].prerendering_has_been_cancelled
  /\ recs["clone"].exists
  /\ Len(seen) = 6
  /\ [i \in 1..6 |-> <<seen[i].who, seen[i].call>>] =
       <<(<<"manager", "AddToHistory">>),
         <<"manager", "MoveEntryToPendingDelete">>,
         <<"tracker", "replacement">>, <<"handle", "replacement">>,
         <<"tracker", "stop">>, <<"handle", "stop">>>>
  /\ \A i \in 1..6 : seen[i].rec = "orig" /\ seen[i].final_status = "TIMED_OUT"

\* C30: in every state a cancelled record has a final status that is a
\* cancellation reason (neither unset nor USED); while Destroy waits between
\* its two tracker calls, resuming it cancels the record with the status the
\* tracker holds, a cancellation reason as well; and the destructor passes
\* its assertions exactly on the records whose final status is set, which
\* are then either cancelled or USED and never both.
C30_CancelledHasCancellationReason ==
  /\ \A r \in RecordIds :
       (Live(r) /\ recs[r].prerendering_has_been_cancelled) =>
         recs[r].final_status \in CancelReasons \ {FINAL_STATUS_USED,
                                                   FINAL_STATUS_MAX}
  /\ (fatal = NoFatal /\ pc.at = "Destroy") =>
       \A in \in Convert :
         \E d \in {DestroyResume(World(in))} :
           Ok(d) =>
             /\ d.recs[pc.rec].prerendering_has_been_cancelled
             /\ d.recs[pc.rec].final_status = tracker[Pair(recs[pc.rec])]
             /\ d.recs[pc.rec].final_status \in
                  CancelReasons \ {FINAL_STATUS_USED, FINAL_STATUS_MAX}
  /\ \A r \in RecordIds :
       (HomeReady /\ Live(r)) =>
         \E w \in {Destructor(World(NoInput), r)} :
           /\ Ok(w) <=> recs[r].final_status # FINAL_STATUS_MAX
           /\ Ok(w) =>
                /\ ~w.recs[r].exists
                /\ recs[r].prerendering_has_been_cancelled #
                     (recs[r].final_status = FINAL_STATUS_USED)

\* Destroy asked for TIMED_OUT, another thread had cancelled the pair first:
\* the record is cancelled with the status adopted from the tracker, and the
\* destructor accepts it.
C30_Witness ==
  /\ HomeReady
  /\ recs["orig"].prerendering_has_been_cancelled
  /\ cancel_log[HomeThread].reason = "TIMED_OUT"
  /\ cancel_log[HomeThread].got # "TIMED_OUT"
  /\ recs["orig"].final_status = cancel_log[HomeThread].got
  /\ recs["orig"].final_status \in CancelReasons
  /\ Ok(Destructor(World(NoInput), "orig"))

\* The manager can ask the original for a replacement: the original was
\* started, is no replacement itself, and has none yet.
Replaceable ==
  /\ fatal = NoFatal /\ Live("orig") /\ ~recs["clone"].exists
  /\ recs["orig"].prerendering_has_started
  /\ recs["orig"].match_complete_status = MATCH_COMPLETE_DEFAULT

\* C31: CheckURL never cancels a replacement-pending record (it accepts the
\* URL or fails its DCHECK, and it skips the recently-visited check); for
\* every original the manager can ask for a replacement, cancelled or not,
\* whatever the manager reports as recently visited, the new record's Init
\* with the original's primary URL succeeds and changes nothing but the new
\* record, which then has that URL as its one alias and is not cancelled,
\* and CreateMatchCompleteReplacement ends with the new record a replacement
\* that is not cancelled and has no final status; none of the assertions of
\* the creation ever fails.
C31_PendingReplacementNotCancelled ==
  /\ fatal \notin
       {"CheckURL: DCHECK_NE(MATCH_COMPLETE_REPLACEMENT_PENDING, match_complete_status_)",
        "CreateMatchCompleteReplacement: DCHECK(did_init)",
        "CreateMatchCompleteReplacement: DCHECK_EQ(1u, new_contents->alias_urls_.size())"}
  /\ \A u \in URLs :
       \A in \in Inputs({u}) :
         (fatal = NoFatal /\ Live("orig") /\ ~recs["clone"].exists) =>
           \E wp \in {NewContents(World(in), "orig")} :
             \E c \in {CheckURL(wp, "clone", u)} :
               /\ ~c.w.recs["clone"].prerendering_has_been_cancelled
               /\ c.w.recs["clone"].final_status = FINAL_STATUS_MAX
               /\ ~InDestroy(c.w) \/ InDestroy(wp)
               /\ c.ret <=> (SchemeSupported(u) /\ ~HttpsDisallowed(u))
               /\ c.ret => c.w = wp
               /\ ~c.ret => ~Ok(c.w)
  /\ \A in \in Inputs({recs["orig"].prerender_url}) :
       Replaceable =>
         \E wp \in {NewContents(World(in), "orig")} :
           /\ \E i \in {InitContents(wp, "clone")} :
                /\ i.ret /\ Ok(i.w)
                /\ i.w = [wp EXCEPT
                            !.recs["clone"].inited = TRUE,
                            !.recs["clone"].alias_urls =
                               <<recs["orig"].prerender_url>>]
                /\ ~i.w.recs["clone"].prerendering_has_been_cancelled
           /\ \E w \in {CreateMatchCompleteReplacement(World(in), "orig")} :
                /\ Ok(w)
                /\ ~w.recs["clone"].prerendering_has_been_cancelled
                /\ w.recs["clone"].final_status = FINAL_STATUS_MAX
                /\ w.recs["clone"].match_complete_status =
                     MATCH_COMPLETE_REPLACEMENT
                /\ w.history = history /\ w.pending_delete = pending_delete
                /\ w.tracker = tracker

\* A started original was cancelled for the unsupported scheme of a redirect
\* and replaced in the same Destroy: the replacement has the original's one
\* alias, is not cancelled and has no final status.
C31_Witness ==
  /\ recs["orig"].prerendering_has_started
  /\ recs["orig"].prerendering_has_been_cancelled
  /\ recs["orig"].final_status = "UNSUPPORTED_SCHEME"
  /\ recs["clone"].exists
  /\ recs["clone"].match_complete_status = MATCH_COMPLETE_REPLACEMENT
  /\ recs["clone"].alias_urls = <<recs["orig"].prerender_url>>
  /\ ~recs["clone"].prerendering_has_been_cancelled
  /\ recs["clone"].final_status = FINAL_STATUS_MAX
  /\ pending_delete = <<(<<"orig", "UNSUPPORTED_SCHEME">>)>>

====
